---- MODULE Spec2Model ----
(***************************************************************************)
(* Model of the euclid-BE chat backend: the chat turn handler              *)
(* (src/routes/chat.js), the action proxy with its middleware chain        *)
(* (src/routes/proxy.js, src/middleware/authz.js,                          *)
(* src/middleware/roleCheck.js, src/config/auth0.js) and the in-memory     *)
(* response cache (src/utils/cache.js).                                    *)
(*                                                                         *)
(* Strings that the code inspects character by character (the chat         *)
(* message, the cache key) are sequences of one-character strings; all     *)
(* other strings are atoms.  A request runs in a process slot; every await *)
(* of a handler is a separate step, everything between two awaits is one   *)
(* step.                                                                   *)
(***************************************************************************)
EXTENDS Integers, Sequences, FiniteSets, TLC

\* ------------------------------------------------------------------------
\* Bounds of the model
\* ------------------------------------------------------------------------
\* longest chat message drawn as input
MaxMsgLen == 2
\* number of requests (chat turns and action requests) in one behaviour
MaxRequests == 2
\* the clock is observed up to MaxSpans TTL spans after the start and up to
\* MaxOverrun milliseconds after each span
MaxSpans == 1
MaxOverrun == 1
\* longest endpoint policy list drawn for a tenant
MaxRules == 2

\* ------------------------------------------------------------------------
\* Program constants
\* ------------------------------------------------------------------------
\* cache.js: const DEFAULT_TTL = 10 * 60 * 1000
DEFAULT_TTL == 10 * 60 * 1000

\* ------------------------------------------------------------------------
\* Values
\* ------------------------------------------------------------------------
\* JavaScript null / undefined / absent field: of a string, and of an object
Null == "null"
NullRec == [null |-> TRUE]

\* characters a chat message is drawn from: a lower-case letter, its
\* upper-case form, and a blank
Alphabet == {"a", "A", " "}

RECURSIVE SeqsUpTo(_, _)
SeqsUpTo(S, n) ==
    IF n = 0 THEN {<<>>}
    ELSE LET shorter == SeqsUpTo(S, n - 1)
         IN  shorter \cup {Append(s, c) : s \in {t \in shorter : Len(t) = n - 1}, c \in S}

\* req.body.message: the empty sequence stands for a missing or empty
\* message (both are falsy)
Messages == SeqsUpTo(Alphabet, MaxMsgLen)

\* String.prototype.toLowerCase on one character
LowerChar(c) == IF c = "A" THEN "a" ELSE c

\* String.prototype.toLowerCase
ToLowerCase(s) == [i \in 1..Len(s) |-> LowerChar(s[i])]

IsSpace(c) == c = " "

\* String.prototype.trim: drop leading and trailing white space
RECURSIVE TrimStart(_)
TrimStart(s) ==
    IF s = <<>> THEN <<>>
    ELSE IF IsSpace(Head(s)) THEN TrimStart(Tail(s))
    ELSE s

RECURSIVE TrimEnd(_)
TrimEnd(s) ==
    IF s = <<>> THEN <<>>
    ELSE IF IsSpace(s[Len(s)]) THEN TrimEnd(SubSeq(s, 1, Len(s) - 1))
    ELSE s

Trim(s) == TrimEnd(TrimStart(s))

\* tenant ids as character sequences, so that a cache key is the
\* concatenation the template literal builds
B1 == <<"1">>
B2 == <<"2">>
BX == <<"9">>
NoBotId == <<>>
StoredBotIds == {B1, B2}
ReqBotIds == {B1, B2, BX, NoBotId}

\* chat.js: const cacheKey = `${botId}:${userMessage.trim().toLowerCase()}`
CacheKeyNoTenant(botId, userMessage) == ToLowerCase(Trim(userMessage))
CacheKeyNoLower(botId, userMessage) == botId \o <<":">> \o Trim(userMessage)
CacheKey(botId, userMessage) == botId \o <<":">> \o ToLowerCase(Trim(userMessage))

\* ------------------------------------------------------------------------
\* Response cache (src/utils/cache.js)
\* ------------------------------------------------------------------------
\* a JavaScript string that is a concatenation of parts; the empty string
\* is the empty sequence
Str(x) == IF x = "" THEN <<>> ELSE <<x>>

\* JavaScript truthiness of what getCache returned: a string or null
TruthyNever(got) == FALSE
Truthy(got) == got.found /\ got.value # <<>>

\* Map.prototype.set
MapSetAlone(m, key, e) == [k \in {key} |-> e]
MapSet(m, key, e) == [k \in DOMAIN m \cup {key} |-> IF k = key THEN e ELSE m[k]]

\* Map.prototype.delete
MapDelete(m, key) == [k \in DOMAIN m \ {key} |-> m[k]]

\* setCache(key, value, ttl = DEFAULT_TTL): the map after the call at time t
SetCacheNoStore(m, key, value, ttl, t) == m
SetCacheFixedTtl(m, key, value, ttl, t) ==
    MapSet(m, key, [value |-> value, expiresAt |-> t + DEFAULT_TTL])
SetCache(m, key, value, ttl, t) == MapSet(m, key, [value |-> value, expiresAt |-> t + ttl])

\* the test `Date.now() > entry.expiresAt` of getCache
Expired(entry, t) == t > entry.expiresAt

\* getCache(key) at time t: the value returned (found = FALSE for null) and
\* the map afterwards
GetCacheNoEvict(m, key, t) ==
    IF key \notin DOMAIN m THEN [found |-> FALSE, value |-> <<>>, map |-> m]
    ELSE IF Expired(m[key], t) THEN [found |-> FALSE, value |-> <<>>, map |-> m]
    ELSE [found |-> TRUE, value |-> m[key].value, map |-> m]
GetCache(m, key, t) ==
    IF key \notin DOMAIN m THEN [found |-> FALSE, value |-> <<>>, map |-> m]
    ELSE IF Expired(m[key], t) THEN [found |-> FALSE, value |-> <<>>, map |-> MapDelete(m, key)]
    ELSE [found |-> TRUE, value |-> m[key].value, map |-> m]

\* ------------------------------------------------------------------------
\* Tokens and their verification (src/config/auth0.js)
\* ------------------------------------------------------------------------
\* `https://${bot.authDomain}/` as a sequence of parts
IssuerOf(authDomain) == <<"https://", authDomain, "/">>

\* a JWT is its content: the domain whose key signed it ("forged" when no
\* published key matches), its iss, aud and exp claims and one roles claim
NeverExpires == 4 * DEFAULT_TTL
TAdmin == [sig |-> "d1", iss |-> IssuerOf("d1"), aud |-> {"aud1"}, exp |-> NeverExpires,
           claim |-> "ns1", roles |-> <<"viewer", "admin">>]
TSupport == [sig |-> "d1", iss |-> IssuerOf("d1"), aud |-> {"aud1"}, exp |-> NeverExpires,
             claim |-> "ns1", roles |-> <<"support">>]
TNoRoles == [sig |-> "d1", iss |-> IssuerOf("d1"), aud |-> {"aud1"}, exp |-> NeverExpires,
             claim |-> "none", roles |-> <<>>]
TForged == [sig |-> "forged", iss |-> IssuerOf("d1"), aud |-> {"aud1"}, exp |-> NeverExpires,
            claim |-> "ns1", roles |-> <<"admin">>]
TOther == [sig |-> "d2", iss |-> IssuerOf("d2"), aud |-> {"aud2"}, exp |-> NeverExpires,
           claim |-> "ns2", roles |-> <<"admin">>]
TWrongAud == [sig |-> "d1", iss |-> IssuerOf("d1"), aud |-> {"aud2"}, exp |-> NeverExpires,
              claim |-> "ns1", roles |-> <<"admin">>]
\* text that is not a JWT: no signature and no claims
TMalformed == [sig |-> "none", iss |-> <<>>, aud |-> {}, exp |-> 0,
               claim |-> "none", roles |-> <<>>]
\* signed by the first tenant's key, naming another issuer
TWrongIss == [sig |-> "d1", iss |-> IssuerOf("d2"), aud |-> {"aud1"}, exp |-> NeverExpires,
              claim |-> "ns1", roles |-> <<"admin">>]
\* of the first tenant, expired from the start
TExpired == [sig |-> "d1", iss |-> IssuerOf("d1"), aud |-> {"aud1"}, exp |-> 0,
             claim |-> "ns1", roles |-> <<"admin">>]
NoToken == NullRec

\* tokens a chat turn is sent with
ChatTokens == {TAdmin, TSupport}
\* tokens an action request is sent with
ProxyTokens == {TAdmin, TSupport, TNoRoles, TForged, TOther}

\* getTokenFromRequest(req): the header token, else the body token, else null
GetTokenBodyFirst(hdrToken, bodyToken) ==
    IF bodyToken # NoToken THEN bodyToken
    ELSE IF hdrToken # NoToken THEN hdrToken
    ELSE NoToken
GetTokenFromRequest(hdrToken, bodyToken) ==
    IF hdrToken # NoToken THEN hdrToken
    ELSE IF bodyToken # NoToken THEN bodyToken
    ELSE NoToken

EndsWithSlash(issuer) == Len(issuer) > 0 /\ issuer[Len(issuer)] = "/"

\* jose jwtVerify(token, JWKS(iss), {issuer, audience}) at time t: the
\* signature is by a key published under the issuer, iss is the issuer, aud
\* contains the audience and the token has not expired
JwtVerifyNoExpiry(token, iss, audience, t) ==
    /\ <<"https://", token.sig, "/">> = iss
    /\ token.iss = iss
    /\ audience \in token.aud
JwtVerifyOK(token, iss, audience, t) ==
    /\ <<"https://", token.sig, "/">> = iss
    /\ token.iss = iss
    /\ audience \in token.aud
    /\ t < token.exp

\* auth0.js 24: the issuer with a trailing slash
NormalizeIssuerAlways(issuer) == issuer \o <<"/">>
NormalizeIssuer(issuer) == IF EndsWithSlash(issuer) THEN issuer ELSE issuer \o <<"/">>

\* auth0.js 25: the URL the key set is fetched from
JwksUrl(iss) == iss \o <<".well-known/jwks.json">>

\* verifyAccessToken(token, {issuer, audience}) at time t: the payload, or
\* an exception
Thrown == [ok |-> FALSE, payload |-> NullRec]
VerifyAccessTokenAnyIssuer(token, issuer, audience, t) ==
    IF token = NoToken THEN Thrown
    ELSE IF token.sig # "forged" /\ t < token.exp THEN [ok |-> TRUE, payload |-> token]
    ELSE Thrown
VerifyAccessToken(token, issuer, audience, t) ==
    IF token = NoToken THEN Thrown
    ELSE LET iss == NormalizeIssuer(issuer)
         IN  IF JwtVerifyOK(token, iss, audience, t)
             THEN [ok |-> TRUE, payload |-> token]
             ELSE Thrown

\* (user?.[rolesNs] || []): the roles claim of the payload, [] when absent
UserRoles(payload, rolesNs) ==
    IF payload = NullRec THEN <<>>
    ELSE IF payload.claim = rolesNs THEN payload.roles
    ELSE <<>>

\* ------------------------------------------------------------------------
\* Endpoint policy (src/middleware/roleCheck.js)
\* ------------------------------------------------------------------------
\* bot.endpointRoles is JSON text: of a list of {endpoint, roles} entries
\* ("list"), text that is some other JSON value or no JSON at all
\* ("other"), or missing (NullRec)
ListBlob(rules) == [json |-> "list", rules |-> rules]
OtherBlob == [json |-> "other", rules |-> <<>>]

RangeOf(s) == {s[i] : i \in 1..Len(s)}

\* Array.prototype.find by endpoint: the first entry, or undefined
FindLastByEndpoint(rules, endpoint) ==
    LET hits == {i \in 1..Len(rules) : rules[i].endpoint = endpoint}
    IN  IF hits = {} THEN NullRec
        ELSE rules[CHOOSE i \in hits : \A j \in hits : j <= i]
RECURSIVE FindByEndpoint(_, _)
FindByEndpoint(rules, endpoint) ==
    IF rules = <<>> THEN NullRec
    ELSE IF Head(rules).endpoint = endpoint THEN Head(rules)
    ELSE FindByEndpoint(Tail(rules), endpoint)

\* findRuleForEndpoint(bot, endpoint): a failure to parse, or to call find
\* on what was parsed, is caught and gives null
FindRuleForEndpoint(bot, endpoint) ==
    IF bot.endpointRoles = NullRec THEN NullRec
    ELSE IF bot.endpointRoles.json # "list" THEN NullRec
    ELSE FindByEndpoint(bot.endpointRoles.rules, endpoint)

\* rule.roles.some((r) => userRoles.includes(String(r)))
SomeRoleIncluded(ruleRoles, userRoles) ==
    \E i \in 1..Len(ruleRoles) : \E j \in 1..Len(userRoles) : userRoles[j] = ruleRoles[i]
EveryRoleIncluded(ruleRoles, userRoles) ==
    \A i \in 1..Len(ruleRoles) : \E j \in 1..Len(userRoles) : userRoles[j] = ruleRoles[i]

\* requiresRoleForEndpoint(): "next", or the response it sends instead
RoleCheckClosed(bot, user, endpoint) ==
    IF endpoint = Null \/ endpoint = "" THEN "missing_endpoint"
    ELSE LET rule == FindRuleForEndpoint(bot, endpoint)
             userRoles == UserRoles(user, bot.rolesNamespace)
         IN  IF rule = NullRec THEN "forbidden"
             ELSE IF SomeRoleIncluded(rule.roles, userRoles) THEN "next" ELSE "forbidden"
RoleCheckEvery(bot, user, endpoint) ==
    IF endpoint = Null \/ endpoint = "" THEN "missing_endpoint"
    ELSE LET rule == FindRuleForEndpoint(bot, endpoint)
             userRoles == UserRoles(user, bot.rolesNamespace)
         IN  IF rule = NullRec THEN "next"
             ELSE IF EveryRoleIncluded(rule.roles, userRoles) THEN "next" ELSE "forbidden"
RequiresRoleForEndpoint(bot, user, endpoint) ==
    IF endpoint = Null \/ endpoint = "" THEN "missing_endpoint"
    ELSE LET rule == FindRuleForEndpoint(bot, endpoint)
             userRoles == UserRoles(user, bot.rolesNamespace)
         IN  IF rule = NullRec THEN "next"
             ELSE IF SomeRoleIncluded(rule.roles, userRoles) THEN "next" ELSE "forbidden"

\* JSON.parse(bot.endpointRoles || "[]") gives an array
HasList(bot) == bot.endpointRoles # NullRec /\ bot.endpointRoles.json = "list"

\* the inline role check of the earlier proxy handler (proxy.js 112-120):
\* "next", "forbidden", or "throw" when the parsed value has no find
LegacyRoleCheckOpen(bot, decoded, endpoint) ==
    LET userRoles == UserRoles(decoded, bot.rolesNamespace)
        rules == IF HasList(bot) THEN bot.endpointRoles.rules ELSE <<>>
        rule == FindByEndpoint(rules, endpoint)
    IN  IF rule # NullRec /\ ~SomeRoleIncluded(rule.roles, userRoles)
        THEN "forbidden"
        ELSE "next"
LegacyRoleCheck(bot, decoded, endpoint) ==
    LET userRoles == UserRoles(decoded, bot.rolesNamespace)
    IN  IF bot.endpointRoles # NullRec /\ bot.endpointRoles.json # "list" THEN "throw"
        ELSE LET rules == IF bot.endpointRoles = NullRec THEN <<>>
                          ELSE bot.endpointRoles.rules
                 rule == FindByEndpoint(rules, endpoint)
             IN  IF rule # NullRec /\ ~SomeRoleIncluded(rule.roles, userRoles)
                 THEN "forbidden"
                 ELSE "next"

\* ------------------------------------------------------------------------
\* Tenant store and collaborators
\* ------------------------------------------------------------------------
\* one document of the bots collection (the fields the handlers read)
Bot1 == [botId |-> B1, apiBaseUrl |-> "https://api1", authDomain |-> "d1",
         authAudience |-> "aud1", rolesNamespace |-> "ns1",
         botName |-> "bot1", embeddingStatus |-> "complete",
         endpointRoles |-> ListBlob(<<[endpoint |-> "/refund", roles |-> <<"admin">>]>>)]
Bot2 == [botId |-> B2, apiBaseUrl |-> "https://api2", authDomain |-> "d2",
         authAudience |-> "aud2", rolesNamespace |-> "ns2",
         botName |-> "bot2", embeddingStatus |-> "complete",
         endpointRoles |-> ListBlob(<<>>)]

\* the bots collection as a map from botId to document
BotsStore == [b \in StoredBotIds |-> IF b = B1 THEN Bot1 ELSE Bot2]

\* botsCollection.findOne({ botId })
FindOne(store, botId) == IF botId \in DOMAIN store THEN store[botId] ELSE NullRec

\* what the language model returns for the prompt of a turn: text that
\* does not parse, or the JSON text of an object
Unparseable == [parses |-> FALSE]
Decision(action, endpoint, method, answer) ==
    [parses |-> TRUE, action |-> action, endpoint |-> endpoint, method |-> method,
     answer |-> answer]
LLMOutputs ==
    { Unparseable,
      Decision("none", Null, Null, "hi"),
      Decision("none", Null, Null, ""),
      Decision("none", Null, Null, Null),
      Decision("call_api", "/refund", Null, "ok"),
      Decision("call_api", Null, "POST", "ok"),
      Decision("call_api", "", Null, "ok") }

\* what querySimilar resolves to: some chunks or none
Retrievals == {"chunks", "empty"}
\* what namespace.searchRecords does: hits, no hit, or a rejection
SearchOutcomes == {"hits", "none", "error"}

\* what the tenant's API answers: a status and whether the body is JSON
UpstreamReplies ==
    { [status |-> 200, isJson |-> TRUE],
      [status |-> 500, isJson |-> TRUE],
      [status |-> 200, isJson |-> FALSE] }

\* endpoints and methods an action request is sent with
ReqEndpoints == {"/refund", "/open", Null}
ReqMethods == {"POST", Null}
\* req.body.payload: missing, or the JSON text of an object
ReqPayloads == {Null, "{p}"}

\* ------------------------------------------------------------------------
\* State
\* ------------------------------------------------------------------------
Procs == {"p1", "p2"}

VARIABLES
    bots,       \* the bots collection
    cache,      \* the Map of cache.js: key -> [value, expiresAt]
    now,        \* Date.now()
    pc,         \* per slot: where its request stands
    req,        \* per slot: the request, the handler's locals, the response
    nreq,       \* requests started so far
    lastFresh   \* the last chat turn that answered 200 with cached: false

vars == <<bots, cache, now, pc, req, nreq, lastFresh>>

EmptyMap == [k \in {} |-> NullRec]

NoResponse == [status |-> 0, body |-> NullRec]

IdleReq ==
    [kind |-> "none", variant |-> "none", via |-> "none", botId |-> NoBotId, message |-> <<>>,
     bodyToken |-> NoToken, hdrToken |-> NoToken, llm |-> NullRec,
     endpoint |-> Null, method |-> Null, payload |-> Null, upReply |-> NullRec,
     cacheKey |-> <<>>, cache0 |-> EmptyMap, prior |-> NullRec, evicted |-> FALSE,
     search |-> "none", topChunks |-> "none", fault |-> "none",
     aiJson |-> NullRec, finalAnswer |-> <<>>,
     bot |-> NullRec, authzBot |-> NullRec, authzToken |-> NoToken,
     reqBot |-> NullRec, reqUser |-> NullRec, reqToken |-> NoToken,
     verifiedFor |-> NoBotId, permittedFor |-> Null,
     retrievals |-> 0, llmCalls |-> 0, proxyCalls |-> 0, verifyCalls |-> 0,
     upstreamCalls |-> <<>>, op |-> NullRec,
     body |-> NullRec, file |-> Null, validator |-> "none", text |-> "none",
     updateData |-> NullRec,
     sent |-> 0, psent |-> 0,
     cacheWrites |-> <<>>,
     pres |-> NoResponse, res |-> NoResponse]

Init ==
    /\ bots = BotsStore
    /\ cache = EmptyMap
    /\ now = 0
    /\ pc = [p \in Procs |-> "idle"]
    /\ req = [p \in Procs |-> IdleReq]
    /\ nreq = 0
    /\ lastFresh = NullRec

\* error envelope of the chat handler
Failed(msg) == [status |-> "failed", error |-> msg]

\* the turn of slot p ends with this response
ChatRespond(p, r, status, body) ==
    /\ req' = [req EXCEPT ![p] = [r EXCEPT !.res = [status |-> status, body |-> body],
                                           !.sent = @ + 1]]
    /\ pc' = [pc EXCEPT ![p] = "done"]

\* ------------------------------------------------------------------------
\* Chat turn (src/routes/chat.js 23-211)
\* ------------------------------------------------------------------------
\* lines 25-57: read the body, validate, look the answer up in the cache.
\* The request is drawn from the given sets; llm is what the language model
\* will return for the prompt of this turn.
ChatStart(p, botIds, messages, tokens, llms) ==
    /\ pc[p] \in {"idle", "done"}
    /\ nreq < MaxRequests
    /\ nreq' = nreq + 1
    /\ \E botId \in botIds, message \in messages, token \in tokens, llm \in llms :
         LET r == [IdleReq EXCEPT !.kind = "chat", !.variant = "gemini",
                                  !.via = "chat", !.botId = botId,
                                  !.message = message, !.bodyToken = token, !.llm = llm,
                                  !.cache0 = cache, !.prior = lastFresh]
         IN  IF botId = NoBotId
             THEN /\ ChatRespond(p, r, 400, Failed("Missing required field: botId"))
                  /\ UNCHANGED cache
             ELSE IF message = <<>>
             THEN /\ ChatRespond(p, r, 400, Failed("Missing required field: userMessage"))
                  /\ UNCHANGED cache
             ELSE IF token = NoToken
             THEN /\ ChatRespond(p, r, 400, Failed("Missing required field: userToken"))
                  /\ UNCHANGED cache
             ELSE LET key == CacheKey(botId, message)
                      got == GetCache(cache, key, now)
                      r1 == [r EXCEPT !.cacheKey = key, !.evicted = (got.map # cache)]
                  IN  /\ cache' = got.map
                      /\ IF Truthy(got)
                         THEN ChatRespond(p, r1, 200,
                                  [botId |-> botId, response |-> got.value, cached |-> TRUE])
                         ELSE /\ req' = [req EXCEPT ![p] = r1]
                              /\ pc' = [pc EXCEPT ![p] = "findBot"]
    /\ UNCHANGED <<bots, now, lastFresh>>

\* botsCollection.findOne rejects: the catch of lines 204-210
ChatFindBotFails(p) ==
    /\ pc[p] = "findBot"
    /\ ChatRespond(p, [req[p] EXCEPT !.fault = "chat"], 500, Failed("Internal server error"))
    /\ UNCHANGED <<bots, cache, now, nreq, lastFresh>>

\* lines 59-75: findOne resolves; the token is decoded and not looked at
ChatFindBotSkipsRetrieval(p) ==
    /\ pc[p] = "findBot"
    /\ LET r == req[p]
           bot == FindOne(bots, r.botId)
       IN  IF bot = NullRec
           THEN ChatRespond(p, r, 404, Failed("Bot not found"))
           ELSE /\ req' = [req EXCEPT ![p] = [r EXCEPT !.bot = bot]]
                /\ pc' = [pc EXCEPT ![p] = "llm"]
    /\ UNCHANGED <<bots, cache, now, nreq, lastFresh>>
ChatFindBot(p) ==
    /\ pc[p] = "findBot"
    /\ LET r == req[p]
           bot == FindOne(bots, r.botId)
       IN  IF bot = NullRec
           THEN ChatRespond(p, r, 404, Failed("Bot not found"))
           ELSE /\ req' = [req EXCEPT ![p] = [r EXCEPT !.bot = bot]]
                /\ pc' = [pc EXCEPT ![p] = "retrieve"]
    /\ UNCHANGED <<bots, cache, now, nreq, lastFresh>>

\* the test `!topChunks.length`
NoChunksNever(topChunks) == FALSE
NoChunks(topChunks) == topChunks = "empty"

\* vectorStore.js 58-80: the hits of the search; a search that rejects is
\* caught and gives []
QuerySimilar(outcome) == IF outcome = "hits" THEN "chunks" ELSE "empty"

\* lines 77-86: querySimilar resolves
ChatRetrieve(p) ==
    /\ pc[p] = "retrieve"
    /\ \E outcome \in SearchOutcomes :
         LET topChunks == QuerySimilar(outcome)
             r == [req[p] EXCEPT !.retrievals = @ + 1, !.search = outcome,
                                 !.topChunks = topChunks]
         IN  IF NoChunks(topChunks)
             THEN ChatRespond(p, r, 404, Failed("No knowledge base found for this bot"))
             ELSE /\ req' = [req EXCEPT ![p] = r]
                  /\ pc' = [pc EXCEPT ![p] = "llm"]
    /\ UNCHANGED <<bots, cache, now, nreq, lastFresh>>

\* the text appended between the model's answer and the action result
Delim == "\n\nAction executed result: "

\* JSON.stringify of a response body of the proxy, as a sequence of parts
Stringify(body) ==
    IF "error" \in DOMAIN body /\ "status" \in DOMAIN body
    THEN <<"{status:", body.status, ",error:", body.error, "}">>
    ELSE IF "error" \in DOMAIN body
    THEN <<"{error:", body.error, "}">>
    ELSE IF "httpStatus" \in DOMAIN body
    THEN <<"{status:", body.status, ",data:", body.data,
           ",httpStatus:", ToString(body.httpStatus), "}">>
    ELSE <<"{status:", body.status, ",data:", body.data, "}">>

\* a message up to letter case and surrounding white space
Fold(message) == ToLowerCase(Trim(message))

\* lines 201-203: setCache(cacheKey, finalAnswer), then the 200 response
ChatFinishCachesAnswerOnly(p, r, finalAnswer) ==
    /\ cache' = SetCache(cache, r.cacheKey, r.finalAnswer, DEFAULT_TTL, now)
    /\ ChatRespond(p, [r EXCEPT !.finalAnswer = finalAnswer,
                                !.cacheWrites = Append(@, [key |-> r.cacheKey,
                                                           value |-> r.finalAnswer,
                                                           at |-> now])],
                   200, [botId |-> r.botId, response |-> finalAnswer, cached |-> FALSE])
    /\ lastFresh' = [botId |-> r.botId, text |-> Fold(r.message),
                     answer |-> finalAnswer, at |-> now]
ChatFinish(p, r, finalAnswer) ==
    /\ cache' = SetCache(cache, r.cacheKey, finalAnswer, DEFAULT_TTL, now)
    /\ ChatRespond(p, [r EXCEPT !.finalAnswer = finalAnswer,
                                !.cacheWrites = Append(@, [key |-> r.cacheKey,
                                                           value |-> finalAnswer,
                                                           at |-> now])],
                   200, [botId |-> r.botId, response |-> finalAnswer, cached |-> FALSE])
    /\ lastFresh' = [botId |-> r.botId, text |-> Fold(r.message),
                     answer |-> finalAnswer, at |-> now]

\* aiJson.answer || ""
AnswerOfEmpty(aiJson) == <<>>
AnswerOf(aiJson) == IF aiJson.answer = Null THEN <<>> ELSE Str(aiJson.answer)

\* the test `!endpoint` on aiJson.endpoint || ""
EndpointMissing(aiJson) == aiJson.endpoint = Null \/ aiJson.endpoint = ""

\* lines 139-199: the model answers; parse, then either finish or send the
\* action to /api/proxy
ChatLLM(p) ==
    /\ pc[p] = "llm"
    /\ LET r == [req[p] EXCEPT !.llmCalls = @ + 1]
           rawText == r.llm
       IN  IF ~rawText.parses
           THEN /\ ChatRespond(p, r, 502, Failed("Failed to parse LLM response"))
                /\ UNCHANGED <<cache, lastFresh>>
           ELSE LET aiJson == rawText
                    r1 == [r EXCEPT !.aiJson = aiJson, !.finalAnswer = AnswerOf(aiJson)]
                IN  IF aiJson.action = "call_api"
                    THEN IF EndpointMissing(aiJson)
                         THEN /\ ChatRespond(p, r1, 400,
                                    Failed("LLM requested action but did not specify endpoint"))
                              /\ UNCHANGED <<cache, lastFresh>>
                         ELSE /\ req' = [req EXCEPT ![p] =
                                    [r1 EXCEPT !.endpoint = aiJson.endpoint,
                                               !.method = IF aiJson.method = Null
                                                          THEN "GET" ELSE aiJson.method,
                                               !.payload = "{}",
                                               !.proxyCalls = @ + 1]]
                              /\ pc' = [pc EXCEPT ![p] = "proxyRoute"]
                              /\ UNCHANGED <<cache, lastFresh>>
                    ELSE ChatFinish(p, r1, AnswerOf(aiJson))
    /\ UNCHANGED <<bots, now, nreq>>

\* the fetch of `${BACKEND_URL}/api/proxy` rejects (server unreachable):
\* the catch of lines 204-210
ChatFetchFails(p) ==
    /\ pc[p] = "proxyRoute"
    /\ ChatRespond(p, req[p], 500, Failed("Internal server error"))
    /\ UNCHANGED <<bots, cache, now, nreq, lastFresh>>

\* a response body that is not JSON text
HtmlPage == [html |-> TRUE]

\* index.js 25-28 mounts /api/chat, /api/bots and /api/upload only: a
\* server started from it answers POST /api/proxy with express's 404 page
ChatProxyUnmounted(p) ==
    /\ pc[p] = "proxyRoute"
    /\ req' = [req EXCEPT ![p].pres = [status |-> 404, body |-> HtmlPage],
                           ![p].psent = @ + 1]
    /\ pc' = [pc EXCEPT ![p] = "proxyReply"]
    /\ UNCHANGED <<bots, cache, now, nreq, lastFresh>>

\* lines 197-203: proxyResponse.json(), compose, cache, answer
ChatProxyReply(p) ==
    /\ pc[p] = "proxyReply"
    /\ LET r == req[p]
       IN  IF r.pres.body = HtmlPage
           THEN /\ ChatRespond(p, r, 500, Failed("Internal server error"))
                /\ UNCHANGED <<cache, lastFresh>>
           ELSE ChatFinish(p, r, r.finalAnswer \o <<Delim>> \o Stringify(r.pres.body))
    /\ UNCHANGED <<bots, now, nreq>>

\* ------------------------------------------------------------------------
\* Earlier chat turn (src/routes/chat.js 239-343): in-memory similarity
\* search, OpenAI completion
\* ------------------------------------------------------------------------
\* lines 242-259: validate, look the answer up in the cache, then await the
\* tenant, its embeddings and the embedding of the message together
ChatStartOpenAI(p, botIds, messages, tokens, llms) ==
    /\ pc[p] \in {"idle", "done"}
    /\ nreq < MaxRequests
    /\ nreq' = nreq + 1
    /\ \E botId \in botIds, message \in messages, token \in tokens, llm \in llms :
         LET r == [IdleReq EXCEPT !.kind = "chat", !.variant = "openai",
                                  !.via = "chat", !.botId = botId,
                                  !.message = message, !.bodyToken = token, !.llm = llm,
                                  !.cache0 = cache, !.prior = lastFresh]
         IN  IF botId = NoBotId \/ message = <<>> \/ token = NoToken
             THEN /\ ChatRespond(p, r, 400, Failed("Missing required fields"))
                  /\ UNCHANGED cache
             ELSE LET key == CacheKey(botId, message)
                      got == GetCache(cache, key, now)
                      r1 == [r EXCEPT !.cacheKey = key, !.evicted = (got.map # cache)]
                  IN  /\ cache' = got.map
                      /\ IF Truthy(got)
                         THEN ChatRespond(p, r1, 200,
                                  [botId |-> botId, response |-> got.value, cached |-> TRUE])
                         ELSE /\ req' = [req EXCEPT ![p] = r1]
                              /\ pc' = [pc EXCEPT ![p] = "oaLoad"]
    /\ UNCHANGED <<bots, now, lastFresh>>

\* lines 255-259: findOne or the embeddings query rejects, and with it
\* Promise.all: the catch of lines 339-342
OpenAILoadFails(p) ==
    /\ pc[p] = "oaLoad"
    /\ ChatRespond(p, [req[p] EXCEPT !.fault = "chat"], 500, Failed("Internal server error"))
    /\ UNCHANGED <<bots, cache, now, nreq, lastFresh>>

\* lines 255-299: Promise.all resolves; the token is decoded and not looked
\* at; the completion is requested
OpenAILoad(p) ==
    /\ pc[p] = "oaLoad"
    /\ \E embeddings \in Retrievals :
         LET r == [req[p] EXCEPT !.retrievals = @ + 1, !.topChunks = embeddings]
             bot == FindOne(bots, r.botId)
         IN  IF bot = NullRec
             THEN ChatRespond(p, r, 404, Failed("Bot not found"))
             ELSE IF NoChunks(embeddings)
             THEN ChatRespond(p, r, 404, Failed("No knowledge base found"))
             ELSE /\ req' = [req EXCEPT ![p] = [r EXCEPT !.bot = bot]]
                  /\ pc' = [pc EXCEPT ![p] = "oaLLM"]
    /\ UNCHANGED <<bots, cache, now, nreq, lastFresh>>

\* lines 306-311: text that does not parse becomes the answer of a decision
\* without action
ParseOrDefault(rawText) ==
    IF rawText.parses THEN rawText
    ELSE Decision("none", Null, Null, "raw")

\* lines 301-338: the completion resolves; parse, then either finish or send
\* the action to /api/proxy
OpenAILLM(p) ==
    /\ pc[p] = "oaLLM"
    /\ LET r == [req[p] EXCEPT !.llmCalls = @ + 1]
           aiOutput == ParseOrDefault(r.llm)
           r1 == [r EXCEPT !.aiJson = aiOutput, !.finalAnswer = AnswerOf(aiOutput)]
       IN  IF aiOutput.action = "call_api"
           THEN /\ req' = [req EXCEPT ![p] =
                      [r1 EXCEPT !.endpoint = aiOutput.endpoint,
                                 !.method = aiOutput.method,
                                 !.proxyCalls = @ + 1]]
                /\ pc' = [pc EXCEPT ![p] = "proxyRoute"]
                /\ UNCHANGED <<cache, lastFresh>>
           ELSE ChatFinish(p, r1, AnswerOf(aiOutput))
    /\ UNCHANGED <<bots, now, nreq>>

\* ------------------------------------------------------------------------
\* Action proxy (src/routes/proxy.js 15-45 behind authz and
\* requiresRoleForEndpoint)
\* ------------------------------------------------------------------------
\* the proxy request of slot p ends with this response: it goes back to the
\* chat turn that sent the request, or to the caller
ProxyRespond(p, r, status, body) ==
    IF r.kind = "chat"
    THEN /\ req' = [req EXCEPT ![p] = [r EXCEPT !.pres = [status |-> status, body |-> body],
                                                !.psent = @ + 1]]
         /\ pc' = [pc EXCEPT ![p] = "proxyReply"]
    ELSE /\ req' = [req EXCEPT ![p] = [r EXCEPT !.res = [status |-> status, body |-> body],
                                                !.sent = @ + 1]]
         /\ pc' = [pc EXCEPT ![p] = "done"]

\* authz.js 13-17: botId from the body, then findOne is awaited
AuthzBegin(p, r) ==
    IF r.botId = NoBotId
    THEN ProxyRespond(p, r, 400, [error |-> "Missing botId"])
    ELSE /\ req' = [req EXCEPT ![p] = r]
         /\ pc' = [pc EXCEPT ![p] = "authzFindBot"]

\* a caller posts an action request to /api/proxy; the request is drawn from
\* the given sets
ProxyStart(p, botIds, endpoints, methods, payloads, hdrTokens, bodyTokens) ==
    /\ pc[p] \in {"idle", "done"}
    /\ nreq < MaxRequests
    /\ nreq' = nreq + 1
    /\ \E botId \in botIds, endpoint \in endpoints, method \in methods,
          payload \in payloads, hdr \in hdrTokens, bodyToken \in bodyTokens :
         AuthzBegin(p, [IdleReq EXCEPT !.kind = "proxy", !.variant = "middleware",
                                       !.via = "direct",
                                       !.botId = botId, !.endpoint = endpoint,
                                       !.method = method, !.payload = payload,
                                       !.hdrToken = hdr,
                                       !.bodyToken = bodyToken,
                                       !.cache0 = cache])
    /\ UNCHANGED <<bots, cache, now, lastFresh>>

\* the action request of a chat turn reaches a server that serves the
\* proxy router; the body carries botId, userToken, endpoint, method, payload
ChatProxyArrive(p) ==
    /\ pc[p] = "proxyRoute"
    /\ AuthzBegin(p, req[p])
    /\ UNCHANGED <<bots, cache, now, nreq, lastFresh>>

\* authz.js 17, 34-37: findOne rejects inside the try of the middleware
AuthzFindBotHangs(p) ==
    /\ pc[p] = "authzFindBot"
    /\ pc' = [pc EXCEPT ![p] = "rejected"]
    /\ UNCHANGED <<bots, cache, now, req, nreq, lastFresh>>
AuthzFindBotFails(p) ==
    /\ pc[p] = "authzFindBot"
    /\ ProxyRespond(p, [req[p] EXCEPT !.fault = "proxy"], 401,
                    [error |-> "Invalid or expired access token"])
    /\ UNCHANGED <<bots, cache, now, nreq, lastFresh>>

\* authz.js 17-27: findOne resolves, the token is read, verification starts
AuthzFindBot(p) ==
    /\ pc[p] = "authzFindBot"
    /\ LET r == req[p]
           bot == FindOne(bots, r.botId)
           token == GetTokenFromRequest(r.hdrToken, r.bodyToken)
       IN  IF bot = NullRec
           THEN ProxyRespond(p, r, 404, [error |-> "Bot not found"])
           ELSE IF token = NoToken
           THEN ProxyRespond(p, r, 401, [error |-> "No access token provided"])
           ELSE /\ req' = [req EXCEPT ![p] = [r EXCEPT !.authzBot = bot, !.authzToken = token]]
                /\ pc' = [pc EXCEPT ![p] = "authzVerify"]
    /\ UNCHANGED <<bots, cache, now, nreq, lastFresh>>

\* String.prototype.toUpperCase on a method name
ToUpperCase(method) == IF method = "get" THEN "GET" ELSE method

\* JSON.stringify(payload || {})
PayloadText(payload) == IF payload = Null THEN "{}" ELSE payload

\* fetch(targetUrl, {method, headers, body}): the request to the tenant's
\* API is sent; body Null is undefined
SendUpstreamTwice(p, r, method, body) ==
    LET call == [url |-> <<r.reqBot.apiBaseUrl, r.endpoint>>,
                 authorization |-> r.reqToken, method |-> method, body |-> body]
    IN  /\ req' = [req EXCEPT ![p] = [r EXCEPT !.upstreamCalls = Append(Append(@, call), call)]]
        /\ pc' = [pc EXCEPT ![p] = "upstream"]
SendUpstream(p, r, method, body) ==
    LET call == [url |-> <<r.reqBot.apiBaseUrl, r.endpoint>>,
                 authorization |-> r.reqToken, method |-> method, body |-> body]
    IN  /\ req' = [req EXCEPT ![p] = [r EXCEPT !.upstreamCalls = Append(@, call)]]
        /\ pc' = [pc EXCEPT ![p] = "upstream"]

\* proxy.js 17-35 after next(): method defaults to "GET"; no body when the
\* method is GET in any letter case
ProxyForward(p, r) ==
    LET method == IF r.method = Null THEN "GET" ELSE r.method
    IN  SendUpstream(p, r, method,
                     IF ToUpperCase(method) # "GET" THEN PayloadText(r.payload) ELSE Null)

\* proxy.js 80, 123-131: method defaults to "GET"; no body when the method
\* is exactly "GET"
LegacyForward(p, r) ==
    LET method == IF r.method = Null THEN "GET" ELSE r.method
    IN  SendUpstream(p, r, method,
                     IF method # "GET" THEN PayloadText(r.payload) ELSE Null)

\* authz.js 27-37, roleCheck.js 20-35: verification settles; on success the
\* role check and the handler run up to the await of the upstream fetch
AuthzVerify(p) ==
    /\ pc[p] = "authzVerify"
    /\ LET r == [req[p] EXCEPT !.verifyCalls = @ + 1]
           bot == r.authzBot
           verified == VerifyAccessToken(r.authzToken, IssuerOf(bot.authDomain),
                                         bot.authAudience, now)
       IN  IF ~verified.ok
           THEN ProxyRespond(p, r, 401, [error |-> "Invalid or expired access token"])
           ELSE LET payload == verified.payload
                    r1 == [r EXCEPT !.reqBot = bot, !.reqUser = payload,
                                    !.reqToken = r.authzToken,
                                    !.verifiedFor = bot.botId]
                    role == RequiresRoleForEndpoint(bot, payload, r.endpoint)
                IN  IF role = "missing_endpoint"
                    THEN ProxyRespond(p, r1, 400, [error |-> "Missing endpoint"])
                    ELSE IF role = "forbidden"
                    THEN ProxyRespond(p, r1, 403, [error |-> "Forbidden: insufficient role"])
                    ELSE ProxyForward(p, [r1 EXCEPT !.permittedFor = r.endpoint])
    /\ UNCHANGED <<bots, cache, now, nreq, lastFresh>>

\* proxy.js 37-40: the tenant's API answers
ProxyUpstream(p) ==
    /\ pc[p] = "upstream"
    /\ req[p].via # "legacy" /\ req[p].kind # "legacy"
    /\ \E reply \in UpstreamReplies :
         ProxyRespond(p, [req[p] EXCEPT !.upReply = reply], 200,
             [status |-> "success",
              data |-> IF reply.isJson THEN "json" ELSE "text",
              httpStatus |-> reply.status])
    /\ UNCHANGED <<bots, cache, now, nreq, lastFresh>>

\* proxy.js 41-44: the upstream fetch rejects
ProxyUpstreamFails(p) ==
    /\ pc[p] = "upstream"
    /\ req[p].via # "legacy" /\ req[p].kind # "legacy"
    /\ ProxyRespond(p, req[p], 500, Failed("Proxy request failed"))
    /\ UNCHANGED <<bots, cache, now, nreq, lastFresh>>

\* ------------------------------------------------------------------------
\* Earlier action proxy (src/routes/proxy.js 78-143): verification and role
\* check inline, the token from the body only
\* ------------------------------------------------------------------------
\* lines 80-90: validate the body, then findOne is awaited
LegacyBegin(p, r) ==
    IF r.botId = NoBotId \/ r.endpoint = Null \/ r.endpoint = "" \/ r.bodyToken = NoToken
    THEN ProxyRespond(p, r, 400, Failed("Missing botId, endpoint, or userToken"))
    ELSE /\ req' = [req EXCEPT ![p] = r]
         /\ pc' = [pc EXCEPT ![p] = "legacyFindBot"]

\* a caller posts an action request to the earlier /api/proxy
LegacyStart(p, botIds, endpoints, methods, payloads, bodyTokens) ==
    /\ pc[p] \in {"idle", "done"}
    /\ nreq < MaxRequests
    /\ nreq' = nreq + 1
    /\ \E botId \in botIds, endpoint \in endpoints, method \in methods,
          payload \in payloads, userToken \in bodyTokens :
         LegacyBegin(p, [IdleReq EXCEPT !.kind = "legacy", !.variant = "legacy",
                                       !.via = "direct",
                                       !.botId = botId, !.endpoint = endpoint,
                                       !.method = method, !.payload = payload,
                                       !.bodyToken = userToken,
                                       !.cache0 = cache])
    /\ UNCHANGED <<bots, cache, now, lastFresh>>

\* the action request of a chat turn reaches a server that serves the
\* earlier proxy router
ChatProxyArriveLegacy(p) ==
    /\ pc[p] = "proxyRoute"
    /\ LegacyBegin(p, [req[p] EXCEPT !.via = "legacy"])
    /\ UNCHANGED <<bots, cache, now, nreq, lastFresh>>

\* line 90: findOne rejects: the catch of lines 139-142
LegacyFindBotFails(p) ==
    /\ pc[p] = "legacyFindBot"
    /\ ProxyRespond(p, [req[p] EXCEPT !.fault = "proxy"], 500, Failed("Proxy request failed"))
    /\ UNCHANGED <<bots, cache, now, nreq, lastFresh>>

\* lines 90-100: findOne resolves; the signing key is looked up
LegacyFindBot(p) ==
    /\ pc[p] = "legacyFindBot"
    /\ LET r == req[p]
           bot == FindOne(bots, r.botId)
       IN  IF bot = NullRec
           THEN ProxyRespond(p, r, 404, Failed("Bot not found"))
           ELSE /\ req' = [req EXCEPT ![p] = [r EXCEPT !.authzBot = bot,
                                                       !.authzToken = r.bodyToken]]
                /\ pc' = [pc EXCEPT ![p] = "legacyVerify"]
    /\ UNCHANGED <<bots, cache, now, nreq, lastFresh>>

\* lines 100-131: jwt.verify against the tenant's audience and issuer, the
\* role check, and the request to the tenant's API is sent
LegacyVerify(p) ==
    /\ pc[p] = "legacyVerify"
    /\ LET r == [req[p] EXCEPT !.verifyCalls = @ + 1]
           bot == r.authzBot
           token == r.authzToken
       IN  IF ~JwtVerifyOK(token, IssuerOf(bot.authDomain), bot.authAudience, now)
           THEN ProxyRespond(p, r, 401, Failed("Invalid user token"))
           ELSE LET r1 == [r EXCEPT !.reqBot = bot, !.reqUser = token, !.reqToken = token,
                                    !.verifiedFor = bot.botId]
                    role == LegacyRoleCheck(bot, token, r.endpoint)
                IN  IF role = "throw"
                    THEN ProxyRespond(p, r1, 500, Failed("Proxy request failed"))
                    ELSE IF role = "forbidden"
                    THEN ProxyRespond(p, r1, 403,
                             Failed("User not authorized for this endpoint"))
                    ELSE LegacyForward(p, [r1 EXCEPT !.permittedFor = r.endpoint])
    /\ UNCHANGED <<bots, cache, now, nreq, lastFresh>>

\* lines 133-138: response.json() of the tenant's answer
LegacyUpstream(p) ==
    /\ pc[p] = "upstream"
    /\ req[p].via = "legacy" \/ req[p].kind = "legacy"
    /\ \E reply \in UpstreamReplies :
         LET r == [req[p] EXCEPT !.upReply = reply]
         IN  IF reply.isJson
             THEN ProxyRespond(p, r, 200, [status |-> "success", data |-> "json"])
             ELSE ProxyRespond(p, r, 500, Failed("Proxy request failed"))
    /\ UNCHANGED <<bots, cache, now, nreq, lastFresh>>

\* lines 139-142: the upstream fetch rejects
LegacyUpstreamFails(p) ==
    /\ pc[p] = "upstream"
    /\ req[p].via = "legacy" \/ req[p].kind = "legacy"
    /\ ProxyRespond(p, req[p], 500, Failed("Proxy request failed"))
    /\ UNCHANGED <<bots, cache, now, nreq, lastFresh>>

\* ------------------------------------------------------------------------
\* Time
\* ------------------------------------------------------------------------
\* the instants the clock is observed at: the start, whole TTL spans after
\* it, and a few milliseconds after each span
TimePoints == {0} \cup {k * DEFAULT_TTL + j : k \in 1..MaxSpans, j \in 0..MaxOverrun}

\* time passes between any two steps
Tick ==
    /\ \E t \in TimePoints :
         /\ t > now
         /\ now' = t
    /\ UNCHANGED <<bots, cache, pc, req, nreq, lastFresh>>

\* ------------------------------------------------------------------------
\* Specifications
\* ------------------------------------------------------------------------
\* messages, model outputs and tokens of the requests of Spec
ShortMessages == {<<>>, <<"A">>}

\* model outputs and tokens of the turns of SpecCache
CacheLLMOutputs ==
    { Decision("none", Null, Null, "hi"),
      Decision("none", Null, Null, ""),
      Decision("call_api", "/refund", Null, "ok") }
CacheTokens == {TAdmin, NoToken}

\* one request at a time, chat turns and action requests
Next ==
    \/ ChatStart("p1", ReqBotIds, ShortMessages, ChatTokens \cup {NoToken}, LLMOutputs)
    \/ ChatFindBot("p1")
    \/ ChatFindBotFails("p1")
    \/ ChatRetrieve("p1")
    \/ ChatLLM("p1")
    \/ ChatStartOpenAI("p1", ReqBotIds, ShortMessages, ChatTokens \cup {NoToken}, LLMOutputs)
    \/ OpenAILoad("p1")
    \/ OpenAILoadFails("p1")
    \/ OpenAILLM("p1")
    \/ ChatFetchFails("p1")
    \/ ChatProxyUnmounted("p1")
    \/ ChatProxyArrive("p1")
    \/ ChatProxyArriveLegacy("p1")
    \/ ChatProxyReply("p1")
    \/ LegacyFindBot("p1")
    \/ LegacyFindBotFails("p1")
    \/ LegacyVerify("p1")
    \/ LegacyUpstream("p1")
    \/ LegacyUpstreamFails("p1")
    \/ ProxyStart("p1", ReqBotIds, ReqEndpoints, ReqMethods, {Null},
                  ProxyTokens \cup {NoToken}, {TSupport, NoToken})
    \/ AuthzFindBot("p1")
    \/ AuthzFindBotFails("p1")
    \/ AuthzVerify("p1")
    \/ ProxyUpstream("p1")
    \/ ProxyUpstreamFails("p1")
    \/ Tick

Spec == Init /\ [][Next]_vars

\* one chat turn at a time, with all messages up to MaxMsgLen
NextCache ==
    \/ ChatStart("p1", ReqBotIds, Messages, CacheTokens, CacheLLMOutputs)
    \/ ChatFindBot("p1")
    \/ ChatRetrieve("p1")
    \/ ChatLLM("p1")
    \/ ChatFetchFails("p1")
    \/ ChatProxyUnmounted("p1")
    \/ ChatProxyArrive("p1")
    \/ ChatProxyReply("p1")
    \/ AuthzFindBot("p1")
    \/ AuthzVerify("p1")
    \/ ProxyUpstream("p1")
    \/ ProxyUpstreamFails("p1")
    \/ Tick

SpecCache == Init /\ [][NextCache]_vars

\* ------------------------------------------------------------------------
\* Action requests against every endpoint policy up to MaxRules entries
\* ------------------------------------------------------------------------
PolicyEndpoints == {"/refund", "/open"}
PolicyRoleLists == {<<>>, <<"admin">>, <<"viewer">>, <<"viewer", "admin">>}
PolicyEntries == {[endpoint |-> e, roles |-> rs] : e \in PolicyEndpoints, rs \in PolicyRoleLists}

\* the values of bot.endpointRoles
PolicyBlobs == {NullRec, OtherBlob} \cup {ListBlob(rules) : rules \in SeqsUpTo(PolicyEntries, MaxRules)}

\* tokens of the first tenant's identity provider with every roles claim,
\* and a forged one
PolicyTokens ==
    {[TAdmin EXCEPT !.roles = rs] : rs \in PolicyRoleLists \cup {<<"support">>}}
        \cup {TNoRoles, TForged}

InitProxy ==
    /\ \E blob \in PolicyBlobs :
         bots = [BotsStore EXCEPT ![B1].endpointRoles = blob]
    /\ cache = EmptyMap
    /\ now = 0
    /\ pc = [p \in Procs |-> "idle"]
    /\ req = [p \in Procs |-> IdleReq]
    /\ nreq = 0
    /\ lastFresh = NullRec

\* endpoints and methods the requests name: those of the policies, one that
\* differs from them by a trailing slash, and none
PolicyReqEndpoints == PolicyEndpoints \cup {"/refund/", Null}
PolicyReqMethods == {Null, "POST"}

NextProxy ==
    \/ ProxyStart("p1", {B1}, PolicyReqEndpoints, PolicyReqMethods, {Null},
                  PolicyTokens, {NoToken})
    \/ AuthzFindBot("p1")
    \/ AuthzVerify("p1")
    \/ ProxyUpstream("p1")
    \/ ProxyUpstreamFails("p1")
    \/ LegacyStart("p1", {B1}, PolicyReqEndpoints, PolicyReqMethods, {Null}, PolicyTokens)
    \/ LegacyFindBot("p1")
    \/ LegacyVerify("p1")
    \/ LegacyUpstream("p1")
    \/ LegacyUpstreamFails("p1")

SpecProxy == InitProxy /\ [][NextProxy]_vars

\* Action requests with every method, payload and token, to both proxies
ForwardMethods == {Null, "GET", "get", "POST"}
ForwardTokens ==
    {TAdmin, TSupport, TWrongAud, TOther, TMalformed, TForged, TWrongIss, TExpired, NoToken}

NextForward ==
    \/ ProxyStart("p1", StoredBotIds, PolicyEndpoints, ForwardMethods, ReqPayloads,
                  ForwardTokens, {TSupport, NoToken})
    \/ AuthzFindBot("p1")
    \/ AuthzVerify("p1")
    \/ ProxyUpstream("p1")
    \/ ProxyUpstreamFails("p1")
    \/ LegacyStart("p1", StoredBotIds, PolicyEndpoints, ForwardMethods, ReqPayloads,
                   ForwardTokens)
    \/ LegacyFindBot("p1")
    \/ LegacyVerify("p1")
    \/ LegacyUpstream("p1")
    \/ LegacyUpstreamFails("p1")

SpecForward == Init /\ [][NextForward]_vars

\* ------------------------------------------------------------------------
\* Tenant management (src/routes/bots.js, src/routes/upload.js)
\* ------------------------------------------------------------------------
\* req.body.endpointRoles that is no JSON text
GarbageText == [json |-> "invalid", rules |-> <<>>]

\* JSON.stringify(parsedRoles) after the try/catch around JSON.parse(
\* req.body.endpointRoles || "[]"): missing text and text that does not
\* parse give "[]"
StoredRoles(text) ==
    IF text = NullRec THEN ListBlob(<<>>)
    ELSE IF text.json = "invalid" THEN ListBlob(<<>>)
    ELSE text

\* the fields of req.body the handlers read; botName stands for the text
\* fields botName, botPersona, businessName and defaultPrompt, which are
\* treated alike
Body(botName, apiBaseUrl, endpointRoles, authDomain, authAudience, rolesNamespace) ==
    [botName |-> botName, apiBaseUrl |-> apiBaseUrl, endpointRoles |-> endpointRoles,
     authDomain |-> authDomain, authAudience |-> authAudience,
     rolesNamespace |-> rolesNamespace]

\* validateBotConfig(data, options): the first version checks every
\* required field whatever the options, the second checks only when
\* options.update is not set and does not require rolesNamespace
Validators == {"always", "createOnly"}
ValidateBotConfig(data, update, validator) ==
    IF validator = "createOnly" /\ update THEN Null
    ELSE IF data.botName = Null THEN "Missing required field: botName"
    ELSE IF data.apiBaseUrl = Null THEN "Missing required field: apiBaseUrl"
    ELSE IF data.authDomain = Null THEN "Missing required field: authDomain"
    ELSE IF data.authAudience = Null THEN "Missing required field: authAudience"
    ELSE IF validator = "always" /\ data.rolesNamespace = Null
    THEN "Missing required field: rolesNamespace"
    ELSE Null

\* botsCollection.updateOne({ botId }, { $set: fields })
UpdateOneDropsOthers(store, botId, fields) ==
    [b \in DOMAIN store \cap {botId} |->
        [f \in DOMAIN store[b] |-> IF f \in DOMAIN fields THEN fields[f] ELSE store[b][f]]]
UpdateOne(store, botId, fields) ==
    [b \in DOMAIN store |->
        IF b = botId
        THEN [f \in DOMAIN store[b] |-> IF f \in DOMAIN fields THEN fields[f] ELSE store[b][f]]
        ELSE store[b]]

\* botsCollection.insertOne(botDoc)
InsertOne(store, doc) ==
    [b \in DOMAIN store \cup {doc.botId} |-> IF b = doc.botId THEN doc ELSE store[b]]

\* { $set: { embeddingStatus } }
SetStatus(store, botId, status) == UpdateOne(store, botId, [embeddingStatus |-> status])

\* `euclid-bot-${crypto.randomUUID()}`: an id no earlier request produced
NewBotId(n) == <<"euclid-bot-", ToString(n)>>

\* what parser.getText() does with the uploaded file, and what
\* processDocument resolves to
TextOutcomes == {"text", "empty", "throws"}
ProcessOutcomes(text) == IF text = "empty" THEN {FALSE} ELSE {TRUE, FALSE}

\* a handler of bots.js or upload.js ends with this response
BotsRespond(p, r, status, body) ==
    /\ req' = [req EXCEPT ![p] = [r EXCEPT !.res = [status |-> status, body |-> body],
                                           !.sent = @ + 1]]
    /\ pc' = [pc EXCEPT ![p] = "done"]

\* bots.js 15-54 (234-270): POST /api/bots/create up to the await of
\* parser.getText(); the document is inserted with embeddingStatus "pending"
BotCreateStart(p, bodies, files) ==
    /\ pc[p] \in {"idle", "done"}
    /\ nreq < MaxRequests
    /\ nreq' = nreq + 1
    /\ \E body \in bodies, file \in files, validator \in Validators :
         LET r == [IdleReq EXCEPT !.kind = "create", !.body = body, !.file = file,
                                  !.validator = validator]
             error == ValidateBotConfig(body, FALSE, validator)
             botId == NewBotId(nreq + 1)
             botDoc == [botId |-> botId, botName |-> body.botName,
                        apiBaseUrl |-> body.apiBaseUrl,
                        endpointRoles |-> StoredRoles(body.endpointRoles),
                        authDomain |-> body.authDomain,
                        authAudience |-> body.authAudience,
                        rolesNamespace |-> body.rolesNamespace,
                        embeddingStatus |-> "pending"]
         IN  IF error # Null
             THEN BotsRespond(p, r, 400, Failed(error)) /\ UNCHANGED bots
             ELSE IF file = Null
             THEN BotsRespond(p, r, 400, Failed("No PDF file uploaded")) /\ UNCHANGED bots
             ELSE /\ bots' = InsertOne(bots, botDoc)
                  /\ req' = [req EXCEPT ![p] = [r EXCEPT !.botId = botId, !.bot = botDoc]]
                  /\ pc' = [pc EXCEPT ![p] = "createText"]
    /\ UNCHANGED <<cache, now, lastFresh>>

\* bots.js 57-75 (273-286), 93-99: getText settles; text goes on to
\* processDocument
BotCreateText(p) ==
    /\ pc[p] = "createText"
    /\ \E text \in TextOutcomes :
         LET r == [req[p] EXCEPT !.text = text]
         IN  IF text = "throws"
             THEN BotsRespond(p, r, 500, Failed("Internal server error")) /\ UNCHANGED bots
             ELSE IF text = "empty"
             THEN /\ bots' = SetStatus(bots, r.botId, "failed")
                  /\ BotsRespond(p, r, 400, Failed("Failed to extract text from PDF"))
             ELSE /\ req' = [req EXCEPT ![p] = r]
                  /\ pc' = [pc EXCEPT ![p] = "createProcess"]
                  /\ UNCHANGED bots
    /\ UNCHANGED <<cache, now, nreq, lastFresh>>

\* bots.js 75-92 (286-302): processDocument resolves
BotCreateProcessed(p) ==
    /\ pc[p] = "createProcess"
    /\ \E success \in ProcessOutcomes(req[p].text) :
         LET r == req[p]
         IN  IF ~success
             THEN /\ bots' = SetStatus(bots, r.botId, "failed")
                  /\ BotsRespond(p, r, 500, Failed("Failed to process document"))
             ELSE /\ bots' = SetStatus(bots, r.botId, "complete")
                  /\ BotsRespond(p, r, 200, [botId |-> r.botId, status |-> "complete"])
    /\ UNCHANGED <<cache, now, nreq, lastFresh>>

\* bots.js 129-135 (334-338): PUT /api/bots/:botId up to the await of
\* findOne; variant is "first" for lines 129-216 and "second" for 334-398
BotUpdateStart(p, botIds, bodies, files) ==
    /\ pc[p] \in {"idle", "done"}
    /\ nreq < MaxRequests
    /\ nreq' = nreq + 1
    /\ \E botId \in botIds, body \in bodies, file \in files, validator \in Validators,
          variant \in {"first", "second"} :
         /\ req' = [req EXCEPT ![p] =
                      [IdleReq EXCEPT !.kind = "update", !.variant = variant,
                                      !.botId = botId, !.body = body, !.file = file,
                                      !.validator = validator]]
         /\ pc' = [pc EXCEPT ![p] = "updateFind"]
    /\ UNCHANGED <<bots, cache, now, lastFresh>>

\* req.body[field] || bot[field]
OrStored(supplied, stored) == IF supplied = Null THEN stored ELSE supplied

\* bots.js 145-164 (345-363): updateData
UpdateData(body, bot) ==
    [botName |-> OrStored(body.botName, bot.botName),
     apiBaseUrl |-> OrStored(body.apiBaseUrl, bot.apiBaseUrl),
     endpointRoles |-> StoredRoles(body.endpointRoles),
     authDomain |-> OrStored(body.authDomain, bot.authDomain),
     authAudience |-> OrStored(body.authAudience, bot.authAudience),
     rolesNamespace |-> OrStored(body.rolesNamespace, bot.rolesNamespace)]

\* bots.js 135-171, 207-208 (338-368, 391-393): findOne resolves; validate;
\* without a file the update is written and answered, with a file
\* parser.getText() is awaited
BotUpdateFound(p) ==
    /\ pc[p] = "updateFind"
    /\ LET r == req[p]
           bot == FindOne(bots, r.botId)
           error == ValidateBotConfig(r.body, TRUE, r.validator)
       IN  IF bot = NullRec
           THEN BotsRespond(p, r, 404, Failed("Bot not found")) /\ UNCHANGED bots
           ELSE IF error # Null
           THEN BotsRespond(p, [r EXCEPT !.bot = bot], 400, Failed(error)) /\ UNCHANGED bots
           ELSE LET updateData == UpdateData(r.body, bot)
                    r1 == [r EXCEPT !.bot = bot, !.updateData = updateData]
                IN  IF r.file = Null
                    THEN /\ bots' = UpdateOne(bots, r.botId, updateData)
                         /\ BotsRespond(p, r1, 200, [status |-> "success", botId |-> r.botId])
                    ELSE /\ req' = [req EXCEPT ![p] = r1]
                         /\ pc' = [pc EXCEPT ![p] = "updateText"]
                         /\ UNCHANGED bots
    /\ UNCHANGED <<cache, now, nreq, lastFresh>>

\* bots.js 171-192 (368-378), 209-215: getText settles; the first variant
\* answers 400 for a file without text, the second goes on with it
BotUpdateText(p) ==
    /\ pc[p] = "updateText"
    /\ \E text \in TextOutcomes :
         LET r == [req[p] EXCEPT !.text = text]
         IN  IF text = "throws"
             THEN BotsRespond(p, r, 500, Failed("Internal server error")) /\ UNCHANGED bots
             ELSE IF text = "empty" /\ r.variant = "first"
             THEN /\ bots' = SetStatus(bots, r.botId, "failed")
                  /\ BotsRespond(p, r, 400, Failed("Failed to extract text from new PDF file"))
             ELSE /\ bots' = SetStatus(bots, r.botId, "pending")
                  /\ req' = [req EXCEPT ![p] = r]
                  /\ pc' = [pc EXCEPT ![p] = "updateProcess"]
    /\ UNCHANGED <<cache, now, nreq, lastFresh>>

\* bots.js 192-208 (378-393): processDocument resolves; on success the
\* update is written with embeddingStatus "complete"
BotUpdateProcessed(p) ==
    /\ pc[p] = "updateProcess"
    /\ \E success \in ProcessOutcomes(req[p].text) :
         LET r == req[p]
         IN  IF ~success
             THEN /\ bots' = SetStatus(bots, r.botId, "failed")
                  /\ BotsRespond(p, r, 500, Failed("Document processing failed"))
             ELSE /\ bots' = UpdateOne(bots, r.botId,
                                       r.updateData @@ [embeddingStatus |-> "complete"])
                  /\ BotsRespond(p, r, 200, [status |-> "success", botId |-> r.botId])
    /\ UNCHANGED <<cache, now, nreq, lastFresh>>

\* upload.js 14-30: POST /api/upload up to the await of findOne
BotUploadStart(p, botIds, files) ==
    /\ pc[p] \in {"idle", "done"}
    /\ nreq < MaxRequests
    /\ nreq' = nreq + 1
    /\ \E botId \in botIds, file \in files :
         LET r == [IdleReq EXCEPT !.kind = "upload", !.botId = botId, !.file = file]
         IN  IF botId = NoBotId \/ file = Null
             THEN BotsRespond(p, r, 400, Failed("Missing botId or file"))
             ELSE /\ req' = [req EXCEPT ![p] = r]
                  /\ pc' = [pc EXCEPT ![p] = "uploadFind"]
    /\ UNCHANGED <<bots, cache, now, lastFresh>>

\* upload.js 30-42: findOne resolves; parser.getText() is awaited
BotUploadFound(p) ==
    /\ pc[p] = "uploadFind"
    /\ LET r == req[p]
           bot == FindOne(bots, r.botId)
       IN  IF bot = NullRec
           THEN BotsRespond(p, r, 404, Failed("Bot not found"))
           ELSE /\ req' = [req EXCEPT ![p] = [r EXCEPT !.bot = bot]]
                /\ pc' = [pc EXCEPT ![p] = "uploadText"]
    /\ UNCHANGED <<bots, cache, now, nreq, lastFresh>>

\* upload.js 42-63, 88-94: getText settles; a file without text is answered
\* 400, text sets the status to "pending" and goes on to processDocument
BotUploadText(p) ==
    /\ pc[p] = "uploadText"
    /\ \E text \in TextOutcomes :
         LET r == [req[p] EXCEPT !.text = text]
         IN  IF text = "throws"
             THEN BotsRespond(p, r, 500, Failed("Internal server error")) /\ UNCHANGED bots
             ELSE IF text = "empty"
             THEN /\ BotsRespond(p, r, 400, Failed("Failed to extract text from uploaded PDF"))
                  /\ UNCHANGED bots
             ELSE /\ bots' = SetStatus(bots, r.botId, "pending")
                  /\ req' = [req EXCEPT ![p] = r]
                  /\ pc' = [pc EXCEPT ![p] = "uploadProcess"]
    /\ UNCHANGED <<cache, now, nreq, lastFresh>>

\* upload.js 63-87: processDocument resolves
BotUploadProcessed(p) ==
    /\ pc[p] = "uploadProcess"
    /\ \E success \in ProcessOutcomes(req[p].text) :
         LET r == req[p]
         IN  IF ~success
             THEN /\ bots' = SetStatus(bots, r.botId, "failed")
                  /\ BotsRespond(p, r, 500, Failed("Document processing failed"))
             ELSE /\ bots' = SetStatus(bots, r.botId, "complete")
                  /\ BotsRespond(p, r, 200, [status |-> "success", botId |-> r.botId])
    /\ UNCHANGED <<cache, now, nreq, lastFresh>>

\* the bodies, files and bot ids the management requests are sent with
OneRule == ListBlob(<<[endpoint |-> "/open", roles |-> <<"viewer">>]>>)
BodyRoles == {NullRec, OneRule, GarbageText, OtherBlob}
CreateBodies ==
    {Body("new", "https://new", roles, "d2", "aud2", "ns2") : roles \in BodyRoles}
        \cup {Body("new", "https://new", NullRec, "d2", "aud2", Null),
              Body(Null, "https://new", NullRec, "d2", "aud2", "ns2")}
UpdateBodies ==
    {Body(botName, rest[1], roles, authDomain, rest[2], rest[3]) :
        botName \in {Null, "new"}, roles \in BodyRoles, authDomain \in {Null, "d2"},
        rest \in {<<Null, Null, Null>>, <<"https://new", "aud2", "ns2">>}}
Files == {Null, "pdf"}

\* management requests, chat turns and action requests, one at a time
NextBots ==
    \/ BotCreateStart("p1", CreateBodies, Files)
    \/ BotCreateText("p1")
    \/ BotCreateProcessed("p1")
    \/ BotUpdateStart("p1", {B1, BX}, UpdateBodies, Files)
    \/ BotUpdateFound("p1")
    \/ BotUpdateText("p1")
    \/ BotUpdateProcessed("p1")
    \/ BotUploadStart("p1", {B1, BX, NoBotId}, Files)
    \/ BotUploadFound("p1")
    \/ BotUploadText("p1")
    \/ BotUploadProcessed("p1")
    \/ ChatStart("p1", {B1}, {<<"a">>}, {TAdmin}, {Decision("call_api", "/refund", Null, "ok")})
    \/ ChatFindBot("p1")
    \/ ChatRetrieve("p1")
    \/ ChatLLM("p1")
    \/ ChatProxyArrive("p1")
    \/ ChatProxyReply("p1")
    \/ ProxyStart("p1", {B1}, {"/refund"}, {Null}, {Null}, {TAdmin, TSupport}, {NoToken})
    \/ AuthzFindBot("p1")
    \/ AuthzVerify("p1")
    \/ ProxyUpstream("p1")

SpecBots == Init /\ [][NextBots]_vars

\* ------------------------------------------------------------------------
\* The functions of cache.js called in any order
\* ------------------------------------------------------------------------
CacheOpKeys == {B1 \o <<":", "a">>, B2 \o <<":", "a">>}
CacheOpValues == {<<"hi">>, <<"yo">>}

\* the ttl argument: not passed, or a few milliseconds
Undefined == -1
ShortTtl == 5
CacheOpTtls == {Undefined, ShortTtl}

\* the default parameter `ttl = DEFAULT_TTL`
TtlOrDefault(ttl) == IF ttl = Undefined THEN DEFAULT_TTL ELSE ttl

\* clearCache(key)
ClearCache(m, key) == MapDelete(m, key)

\* flushCache()
FlushCache(m) == EmptyMap

\* slot p has called a function of cache.js: what it called, and the map
\* before the call
CacheOpDone(p, name, key, value, ttl) ==
    /\ req' = [req EXCEPT ![p] =
                 [IdleReq EXCEPT !.kind = "cacheOp", !.cache0 = cache,
                                 !.op = [name |-> name, key |-> key, value |-> value,
                                         ttl |-> ttl, at |-> now]]]
    /\ UNCHANGED <<bots, now, pc, nreq, lastFresh>>

SetCacheOp(p) ==
    \E key \in CacheOpKeys, value \in CacheOpValues, ttl \in CacheOpTtls :
        /\ cache' = SetCache(cache, key, value, TtlOrDefault(ttl), now)
        /\ CacheOpDone(p, "setCache", key, value, ttl)

GetCacheOp(p) ==
    \E key \in CacheOpKeys :
        LET got == GetCache(cache, key, now)
        IN  /\ cache' = got.map
            /\ CacheOpDone(p, "getCache", key, got.value, Undefined)

ClearCacheOp(p) ==
    \E key \in CacheOpKeys :
        /\ cache' = ClearCache(cache, key)
        /\ CacheOpDone(p, "clearCache", key, <<>>, Undefined)

FlushCacheOp(p) ==
    /\ cache' = FlushCache(cache)
    /\ CacheOpDone(p, "flushCache", <<>>, <<>>, Undefined)

NextCacheOps ==
    \/ SetCacheOp("p1")
    \/ GetCacheOp("p1")
    \/ ClearCacheOp("p1")
    \/ FlushCacheOp("p1")
    \/ Tick

SpecCacheOps == Init /\ [][NextCacheOps]_vars

\* ------------------------------------------------------------------------
\* verifyAccessToken called with an issuer with and without trailing slash
\* ------------------------------------------------------------------------
IssuerDomains == {"d1", "d2"}
IssuerAudiences == {"aud1", "aud2"}

\* slot p1 is to verify the token for the issuer `https://${domain}/`, slot
\* p2 for the same issuer without the trailing slash
InitIssuer ==
    /\ bots = BotsStore
    /\ cache = EmptyMap
    /\ now = 0
    /\ pc = [p \in Procs |-> "idle"]
    /\ \E domain \in IssuerDomains, audience \in IssuerAudiences,
          token \in ForwardTokens \ {NoToken} :
         req = [p \in Procs |->
                  [IdleReq EXCEPT !.kind = "verify", !.hdrToken = token,
                                  !.op = [issuer |-> IF p = "p1" THEN IssuerOf(domain)
                                                     ELSE <<"https://", domain>>,
                                          audience |-> audience,
                                          iss |-> <<>>, url |-> <<>>, ok |-> FALSE]]]
    /\ nreq = 0
    /\ lastFresh = NullRec

\* auth0.js 21-28: slot p calls verifyAccessToken; the normalized issuer,
\* the URL of the key set and the outcome are kept
VerifyIssuer(p) ==
    /\ pc[p] = "idle"
    /\ LET r == req[p]
           iss == NormalizeIssuer(r.op.issuer)
           verified == VerifyAccessToken(r.hdrToken, r.op.issuer, r.op.audience, now)
       IN  req' = [req EXCEPT ![p].op = [r.op EXCEPT !.iss = iss, !.url = JwksUrl(iss),
                                                     !.ok = verified.ok],
                              ![p].verifyCalls = @ + 1]
    /\ pc' = [pc EXCEPT ![p] = "verified"]
    /\ UNCHANGED <<bots, cache, now, nreq, lastFresh>>

NextIssuer == VerifyIssuer("p1") \/ VerifyIssuer("p2")

SpecIssuer == InitIssuer /\ [][NextIssuer]_vars

\* ------------------------------------------------------------------------
\* The cache key of two messages of one tenant
\* ------------------------------------------------------------------------
InitKey ==
    /\ bots = BotsStore
    /\ cache = EmptyMap
    /\ now = 0
    /\ pc = [p \in Procs |-> "idle"]
    /\ \E botId \in StoredBotIds, m1 \in Messages, m2 \in Messages :
         req = [p \in Procs |->
                  [IdleReq EXCEPT !.kind = "chat", !.botId = botId,
                                  !.message = IF p = "p1" THEN m1 ELSE m2]]
    /\ nreq = 0
    /\ lastFresh = NullRec

\* chat.js 53: the cache key of the message of slot p
ComputeKey(p) ==
    /\ pc[p] = "idle"
    /\ req' = [req EXCEPT ![p].cacheKey = CacheKey(req[p].botId, req[p].message)]
    /\ pc' = [pc EXCEPT ![p] = "keyed"]
    /\ UNCHANGED <<bots, cache, now, nreq, lastFresh>>

NextKey == ComputeKey("p1") \/ ComputeKey("p2")

SpecKey == InitKey /\ [][NextKey]_vars

\* ------------------------------------------------------------------------
\* Two chat turns that overlap
\* ------------------------------------------------------------------------
ConcMessages == {<<"a">>, <<"A">>, <<" ", "a">>, <<"a", "a">>}
ConcLLMOutputs ==
    { Unparseable,
      Decision("none", Null, Null, "hi"),
      Decision("none", Null, Null, "yo") }

\* each slot runs one turn; the turns start in any order and their steps
\* interleave
NextConc ==
    \/ pc["p1"] = "idle" /\ ChatStart("p1", StoredBotIds, ConcMessages, {TAdmin}, ConcLLMOutputs)
    \/ ChatFindBot("p1")
    \/ ChatRetrieve("p1")
    \/ ChatLLM("p1")
    \/ pc["p2"] = "idle" /\ ChatStart("p2", StoredBotIds, ConcMessages, {TAdmin}, ConcLLMOutputs)
    \/ ChatFindBot("p2")
    \/ ChatRetrieve("p2")
    \/ ChatLLM("p2")

SpecConc == Init /\ [][NextConc]_vars

\* ------------------------------------------------------------------------
\* Requests whose pending awaits all settle
\* ------------------------------------------------------------------------
LiveBotIds == {B1, BX, NoBotId}
LiveTokens == {TAdmin, TSupport, NoToken}

\* a request arrives
StartLive ==
    \/ ChatStart("p1", LiveBotIds, ShortMessages, LiveTokens, LLMOutputs)
    \/ ProxyStart("p1", LiveBotIds, ReqEndpoints, {Null}, {Null},
                  {TAdmin, TSupport, TForged, NoToken}, {NoToken})

\* a pending await of the request settles, by resolving or by rejecting,
\* and the handler runs to its next await or to its response
StepLive ==
    \/ ChatFindBot("p1")
    \/ ChatFindBotFails("p1")
    \/ ChatRetrieve("p1")
    \/ ChatLLM("p1")
    \/ ChatFetchFails("p1")
    \/ ChatProxyUnmounted("p1")
    \/ ChatProxyArrive("p1")
    \/ ChatProxyReply("p1")
    \/ AuthzFindBot("p1")
    \/ AuthzFindBotFails("p1")
    \/ AuthzVerify("p1")
    \/ ProxyUpstream("p1")
    \/ ProxyUpstreamFails("p1")

NextLive == StartLive \/ StepLive

\* every collaborator call returns or throws: an await that is pending
\* settles in the end
SpecLive == Init /\ [][NextLive]_vars /\ WF_vars(StepLive)

\* ------------------------------------------------------------------------
\* Two chat turns for any two tenant ids
\* ------------------------------------------------------------------------
\* a botId no create request produced: generated ids hold no colon
B1Colon == <<"1", ":", "a">>
TenantBotIds == StoredBotIds \cup {B1Colon}
TenantMessages == {<<"a">>, <<"A">>, <<"a", ":", "a">>}
TenantLLMOutputs ==
    { Decision("none", Null, Null, "hi"),
      Decision("none", Null, Null, "yo") }

\* each slot runs one turn, the second possibly after the first was cached;
\* their steps interleave
NextTenant ==
    \/ pc["p1"] = "idle" /\ ChatStart("p1", TenantBotIds, TenantMessages, {TAdmin}, TenantLLMOutputs)
    \/ ChatFindBot("p1")
    \/ ChatRetrieve("p1")
    \/ ChatLLM("p1")
    \/ pc["p2"] = "idle" /\ ChatStart("p2", TenantBotIds, TenantMessages, {TAdmin}, TenantLLMOutputs)
    \/ ChatFindBot("p2")
    \/ ChatRetrieve("p2")
    \/ ChatLLM("p2")

SpecTenant == Init /\ [][NextTenant]_vars

\* ------------------------------------------------------------------------
\* Properties
\* ------------------------------------------------------------------------
\* the turn of slot p has been answered
ChatDone(p) == pc[p] = "done" /\ req[p].kind = "chat"

\* the bearer token a request carries: the header's, else the body's
TokenSent(r) == IF r.hdrToken # NoToken THEN r.hdrToken ELSE r.bodyToken

\* the token is one the tenant's identity provider issued for the tenant's
\* audience
ValidFor(tok, bot) ==
    /\ tok # NoToken
    /\ tok.sig = bot.authDomain
    /\ tok.iss = IssuerOf(bot.authDomain)
    /\ bot.authAudience \in tok.aud

\* the roles the token holds at the tenant's roles claim
CallerRoles(tok, bot) ==
    IF tok # NoToken /\ tok.claim = bot.rolesNamespace THEN RangeOf(tok.roles) ELSE {}

\* the tenant's policy is a list of entries
HasPolicyList(bot) == bot.endpointRoles # NullRec /\ bot.endpointRoles.json = "list"

\* positions of the tenant's policy entries whose endpoint is exactly e
EntriesFor(bot, e) ==
    IF HasPolicyList(bot)
    THEN {i \in 1..Len(bot.endpointRoles.rules) : bot.endpointRoles.rules[i].endpoint = e}
    ELSE {}

\* the roles the first entry for e allows
AllowedRoles(bot, e) ==
    LET first == CHOOSE i \in EntriesFor(bot, e) : \A j \in EntriesFor(bot, e) : i <= j
    IN  RangeOf(bot.endpointRoles.rules[first].roles)

PolicyPermits(bot, e, roles) ==
    EntriesFor(bot, e) = {} \/ AllowedRoles(bot, e) \cap roles # {}

\* an action request whose token was verified, so that the role check ran
RoleChecked(r) ==
    /\ r.kind \in {"proxy", "legacy"}
    /\ r.verifiedFor # NoBotId
    /\ r.endpoint # Null /\ r.endpoint # ""

\* C1: a request to the tenant's API has been sent only by a request whose
\* bearer token was verified against the issuer and audience of the tenant
\* it names and whose role check permitted the requested endpoint.
C1_UpstreamOnlyAfterAuth ==
    \A p \in Procs :
        LET r == req[p]
        IN  r.upstreamCalls # <<>> =>
              /\ r.botId \in DOMAIN bots
              /\ r.verifiedFor = r.botId
              /\ ValidFor(TokenSent(r), bots[r.botId])
              /\ r.permittedFor = r.endpoint
              /\ PolicyPermits(bots[r.botId], r.endpoint,
                               CallerRoles(TokenSent(r), bots[r.botId]))

C1_Witness ==
    \E p \in Procs :
        /\ req[p].kind = "proxy"
        /\ req[p].upstreamCalls # <<>>
        /\ EntriesFor(bots[req[p].botId], req[p].endpoint) # {}

C3_PermitIffRolesIntersect ==
    \A p \in Procs :
        LET r == req[p]
        IN  (RoleChecked(r) /\ EntriesFor(r.reqBot, r.endpoint) # {})
            => LET common == AllowedRoles(r.reqBot, r.endpoint)
                                \cap CallerRoles(TokenSent(r), r.reqBot)
               IN  /\ (r.upstreamCalls # <<>>) <=> (common # {})
                   /\ common = {} => (pc[p] = "done" /\ r.res.status = 403)

C3_Witness ==
    \E p \in Procs :
        LET r == req[p]
        IN  /\ RoleChecked(r)
            /\ EntriesFor(r.reqBot, r.endpoint) # {}
            /\ AllowedRoles(r.reqBot, r.endpoint) = {"admin"}
            /\ CallerRoles(TokenSent(r), r.reqBot) = {"viewer", "admin"}
            /\ r.upstreamCalls # <<>>

\* the turn's decision was parsed and asks for an action
ActionTurn(r) == r.kind = "chat" /\ r.aiJson # NullRec /\ r.aiJson.action = "call_api"

\* C4: a turn whose decision is an action on an endpoint the policy
\* restricts to roles the verified caller does not hold ends with status
\* 403, and no request was sent to the tenant's API.
C4_DeniedActionIs403 ==
    \A p \in Procs :
        LET r == req[p]
        IN  ( /\ ChatDone(p)
              /\ ActionTurn(r)
              /\ r.verifiedFor = r.botId
              /\ EntriesFor(r.bot, r.endpoint) # {}
              /\ AllowedRoles(r.bot, r.endpoint) \cap CallerRoles(r.bodyToken, r.bot) = {} )
            => /\ r.res.status = 403
               /\ r.upstreamCalls = <<>>

\* C5: a turn without a token whose decision would be an action ends with
\* status 401, and nothing was sent to the proxy or to the tenant's API.
C5_ActionWithoutTokenIs401 ==
    \A p \in Procs :
        LET r == req[p]
        IN  ( /\ ChatDone(p)
              /\ r.botId \in DOMAIN bots
              /\ r.message # <<>>
              /\ r.bodyToken = NoToken
              /\ r.llm.parses
              /\ r.llm.action = "call_api" )
            => /\ r.res.status = 401
               /\ r.proxyCalls = 0
               /\ r.upstreamCalls = <<>>

\* C6: a turn whose decision is an action with a missing or empty endpoint
\* ends with an error, sent nothing to the proxy or to the tenant's API and
\* cached nothing.
C6_ActionWithoutEndpointFails ==
    \A p \in Procs :
        LET r == req[p]
        IN  ( /\ ChatDone(p)
              /\ ActionTurn(r)
              /\ r.aiJson.endpoint \in {Null, ""} )
            => /\ r.res.status >= 400
               /\ r.proxyCalls = 0
               /\ r.upstreamCalls = <<>>
               /\ r.cacheWrites = <<>>

\* C7: a turn whose retrieval returned no chunk has ended with status 404
\* (for a known tenant: "no knowledge base"), the language model was never
\* called and nothing was put in the cache.
C7_EmptyRetrievalIs404 ==
    \A p \in Procs :
        LET r == req[p]
        IN  (r.kind = "chat" /\ r.topChunks = "empty")
            => /\ pc[p] = "done"
               /\ r.res.status = 404
               /\ r.botId \in DOMAIN bots =>
                     r.res.body.error \in {"No knowledge base found for this bot",
                                           "No knowledge base found"}
               /\ r.llmCalls = 0
               /\ r.proxyCalls = 0
               /\ r.cacheWrites = <<>>
               /\ \A k \in DOMAIN cache : k \in DOMAIN r.cache0 /\ cache[k] = r.cache0[k]

C7_Witness ==
    \E p \in Procs :
        /\ ChatDone(p)
        /\ req[p].topChunks = "empty"
        /\ req[p].retrievals = 1
        /\ req[p].llm.parses
        /\ req[p].res.status = 404
        /\ cache # EmptyMap

\* the turn of slot p, a request that passes validation, repeats within the
\* time to live the tenant and the message (up to case and surrounding
\* white space) of the turn that last produced a fresh answer
RepeatsLastFresh(p) ==
    LET r == req[p]
    IN  /\ ChatDone(p)
        /\ r.message # <<>>
        /\ r.bodyToken # NoToken
        /\ r.prior # NullRec
        /\ r.prior.botId = r.botId
        /\ r.prior.text = Fold(r.message)
        /\ now <= r.prior.at + DEFAULT_TTL

\* C8: a turn that repeats, within the time to live, the tenant and message
\* of an earlier turn that produced a fresh answer returns exactly that
\* answer, marked as cached.
C8_RepeatIsServedFromCache ==
    \A p \in Procs :
        RepeatsLastFresh(p)
        => /\ req[p].res.status = 200
           /\ req[p].res.body.response = req[p].prior.answer
           /\ req[p].res.body.cached = TRUE

\* the step is the cache lookup of a validated turn of slot p
LookupStep(p) ==
    /\ nreq' = nreq + 1
    /\ req'[p].kind = "chat"
    /\ req'[p].cacheKey # <<>>

\* the step answered the turn of slot p from the cache
ServedFromCache(p) ==
    /\ pc'[p] = "done"
    /\ req'[p].res.status = 200
    /\ req'[p].res.body.cached = TRUE

\* C9: a lookup of an entry whose expiry time is before the current time
\* finds nothing and removes that entry and no other; a lookup of a live
\* entry or of an absent key leaves the map unchanged; a value served from
\* the cache is the value of a live entry.
C9_LazyExpiry ==
    [][\A p \in Procs :
         LookupStep(p) =>
           LET k == req'[p].cacheKey
               present == k \in DOMAIN cache
               stale == present /\ now > cache[k].expiresAt
           IN  /\ stale => /\ ~ServedFromCache(p)
                           /\ DOMAIN cache' = DOMAIN cache \ {k}
                           /\ \A j \in DOMAIN cache' : cache'[j] = cache[j]
               /\ ~stale => cache' = cache
               /\ ServedFromCache(p) => /\ present
                                        /\ now <= cache[k].expiresAt
                                        /\ req'[p].res.body.response = cache[k].value
        ]_vars

C9_Witness ==
    \E p \in Procs :
        /\ pc[p] = "findBot"
        /\ req[p].evicted
        /\ req[p].cacheKey \in DOMAIN req[p].cache0
        /\ req[p].cacheKey \notin DOMAIN cache

\* the turn of slot p ended with an error response
ErrorTurn(p) == ChatDone(p) /\ req[p].res.status >= 400

\* the turn of slot p ended with an answer that did not come from the cache
FreshTurn(p) ==
    /\ ChatDone(p)
    /\ req[p].res.status = 200
    /\ req[p].res.body.cached = FALSE

\* the turn of slot p has stored the answer it returned under its key, once,
\* and has changed no entry under another key that is still present
StoredItsAnswer(p) ==
    LET r == req[p]
    IN  /\ Len(r.cacheWrites) = 1
        /\ r.cacheWrites[1].key = r.cacheKey
        /\ r.cacheWrites[1].value = r.res.body.response
        /\ r.cacheKey \in DOMAIN cache
        /\ cache[r.cacheKey].value = r.res.body.response
        /\ cache[r.cacheKey].expiresAt = r.cacheWrites[1].at + DEFAULT_TTL
        /\ \A k \in DOMAIN cache \ {r.cacheKey} : k \in DOMAIN r.cache0 /\ cache[k] = r.cache0[k]

\* the cache differs from what it was when the turn of slot p began by at
\* most the removal of the expired entry under the turn's own key
OnlyOwnExpiredEntryRemoved(p) ==
    LET r == req[p]
    IN  \/ cache = r.cache0
        \/ /\ r.cacheKey \in DOMAIN r.cache0
           /\ r.cache0[r.cacheKey].expiresAt < now
           /\ DOMAIN cache = DOMAIN r.cache0 \ {r.cacheKey}
           /\ \A k \in DOMAIN cache : cache[k] = r.cache0[k]

\* C10 as stated: a turn that returns a fresh answer has stored exactly that
\* answer, and a turn that ends with an error leaves the cache exactly as it
\* was when the turn began.
C10_ErrorTurnLeavesCacheAsItWas ==
    \A p \in Procs :
        /\ FreshTurn(p) => StoredItsAnswer(p)
        /\ ErrorTurn(p) => (req[p].cacheWrites = <<>> /\ cache = req[p].cache0)

\* C10 amended: a turn that returns a fresh answer has stored exactly that
\* answer; a turn that ends with an error has written nothing, and the
\* cache is as it was when the turn began except that the expired entry
\* under the turn's own key may have been removed by the turn's lookup.
C10_ErrorTurnWritesNothing ==
    \A p \in Procs :
        /\ FreshTurn(p) => StoredItsAnswer(p)
        /\ ErrorTurn(p) => (req[p].cacheWrites = <<>> /\ OnlyOwnExpiredEntryRemoved(p))

C10_Witness ==
    \E p \in Procs :
        /\ ErrorTurn(p)
        /\ req[p].res.status = 404
        /\ cache # req[p].cache0
        /\ OnlyOwnExpiredEntryRemoved(p)

\* when the turn began the cache held a live entry with a non-empty answer
\* under the turn's key
CacheHitAtStart(r) ==
    /\ r.kind = "chat"
    /\ r.cacheKey # <<>>
    /\ r.cacheKey \in DOMAIN r.cache0
    /\ r.cache0[r.cacheKey].value # <<>>
    /\ now <= r.cache0[r.cacheKey].expiresAt

\* C11: a turn that finds a live answer under its key is done at once: the
\* response is that answer marked as cached, and the turn looked up no
\* tenant, retrieved nothing, called no model, verified no token, sent
\* nothing to the proxy or the tenant's API and wrote nothing to the cache.
C11_CacheHitGoesToDone ==
    \A p \in Procs :
        LET r == req[p]
        IN  CacheHitAtStart(r)
            => /\ pc[p] = "done"
               /\ r.res.status = 200
               /\ r.res.body.cached = TRUE
               /\ r.res.body.response = r.cache0[r.cacheKey].value
               /\ r.bot = NullRec
               /\ r.retrievals = 0
               /\ r.llmCalls = 0
               /\ r.verifiedFor = NoBotId
               /\ r.proxyCalls = 0
               /\ r.upstreamCalls = <<>>
               /\ r.cacheWrites = <<>>
               /\ cache = r.cache0

C11_Witness ==
    \E p \in Procs :
        /\ CacheHitAtStart(req[p])
        /\ ChatDone(p)
        /\ req[p].res.body.cached = TRUE
        /\ req[p].llm.parses
        /\ req[p].prior # NullRec
        /\ req[p].res.body.response = req[p].prior.answer

\* the response of the proxy to the action request of r
ProxyResponse(r) == IF r.kind = "chat" THEN r.pres ELSE r.res

\* the text s begins with the text a
StartsWith(s, a) == Len(s) >= Len(a) /\ SubSeq(s, 1, Len(a)) = a

\* the text s has the part x
Mentions(s, x) == \E i \in 1..Len(s) : s[i] = x

\* C12: when the tenant's API answers the action with status 500, the turn
\* ends with status 200 and cached = false, and the answer is the model's
\* answer followed by a caveat that names the endpoint and the status.
C12_UpstreamErrorIsCaveat ==
    \A p \in Procs :
        LET r == req[p]
        IN  ( /\ ChatDone(p)
              /\ ActionTurn(r)
              /\ r.upReply # NullRec
              /\ r.upReply.status = 500 )
            => /\ r.res.status = 200
               /\ r.res.body.cached = FALSE
               /\ StartsWith(r.res.body.response, AnswerOf(r.aiJson))
               /\ Mentions(r.res.body.response, ToString(r.upReply.status))
               /\ Mentions(r.res.body.response, r.endpoint)

\* the action request of the turn was sent and no readable response of the
\* proxy came back
ActionTransportFailed(r) ==
    /\ ActionTurn(r)
    /\ r.proxyCalls >= 1
    /\ r.pres = NoResponse \/ r.pres.body = HtmlPage

\* C13: a turn whose action request could not be delivered, or whose
\* response could not be read, ends with status 200 and the model's answer
\* followed by a caveat.
C13_TransportFailureIsCaveat ==
    \A p \in Procs :
        LET r == req[p]
        IN  (ChatDone(p) /\ ActionTransportFailed(r))
            => /\ r.res.status = 200
               /\ StartsWith(r.res.body.response, AnswerOf(r.aiJson))
               /\ Len(r.res.body.response) > Len(AnswerOf(r.aiJson))

\* C14: a turn whose model output does not parse ends with status 502: no
\* decision was substituted, the model was called once, nothing was sent to
\* the proxy or the tenant's API and nothing was cached.
C14_UnparseableIs502 ==
    \A p \in Procs :
        LET r == req[p]
        IN  (ChatDone(p) /\ r.llmCalls >= 1 /\ ~r.llm.parses)
            => /\ r.res.status = 502
               /\ r.aiJson = NullRec
               /\ r.llmCalls = 1
               /\ r.proxyCalls = 0
               /\ r.upstreamCalls = <<>>
               /\ r.cacheWrites = <<>>

\* C15: a turn whose parsed decision has no answer ends with an error;
\* nothing is returned as its answer and nothing is cached.
C15_MissingAnswerIsRejected ==
    \A p \in Procs :
        LET r == req[p]
        IN  (ChatDone(p) /\ r.llmCalls >= 1 /\ r.llm.parses /\ r.llm.answer = Null)
            => /\ r.res.status >= 400
               /\ r.cacheWrites = <<>>

\* C16: a turn without a token, for a known tenant with a message, whose
\* decision would be to take no action, ends with status 200.
C16_NoTokenNeededWithoutAction ==
    \A p \in Procs :
        LET r == req[p]
        IN  ( /\ ChatDone(p)
              /\ r.botId \in DOMAIN bots
              /\ r.message # <<>>
              /\ r.bodyToken = NoToken
              /\ r.topChunks # "empty"
              /\ r.llm.parses
              /\ r.llm.action = "none"
              /\ r.llm.answer # Null )
            => r.res.status = 200

\* C17: every request sent to the tenant's API carries as bearer credential
\* the token of the request (the header's when present, else the body's),
\* which is the token that was verified, and goes to the tenant's base URL
\* followed by the requested endpoint.
C17_OnBehalfOf ==
    \A p \in Procs :
        LET r == req[p]
        IN  \A i \in 1..Len(r.upstreamCalls) :
                /\ r.upstreamCalls[i].authorization = TokenSent(r)
                /\ r.upstreamCalls[i].authorization = r.reqUser
                /\ ValidFor(r.upstreamCalls[i].authorization, bots[r.botId])
                /\ r.upstreamCalls[i].url = <<bots[r.botId].apiBaseUrl, r.endpoint>>

C17_Witness ==
    \E p \in Procs :
        LET r == req[p]
        IN  /\ r.kind = "proxy"
            /\ r.hdrToken # NoToken
            /\ r.bodyToken # NoToken
            /\ r.hdrToken # r.bodyToken
            /\ Len(r.upstreamCalls) = 1
            /\ r.upstreamCalls[1].authorization = r.hdrToken

\* the token of the request was issued by the tenant's identity provider
\* and has not expired, but its audience does not contain the tenant's
AudienceMismatched(r) ==
    /\ r.kind \in {"proxy", "legacy"}
    /\ r.botId \in DOMAIN bots
    /\ TokenSent(r) # NoToken
    /\ TokenSent(r).sig = bots[r.botId].authDomain
    /\ TokenSent(r).iss = IssuerOf(bots[r.botId].authDomain)
    /\ now < TokenSent(r).exp
    /\ bots[r.botId].authAudience \notin TokenSent(r).aud

\* the response is the one sent when token verification throws
VerifierRejected(r) ==
    /\ ProxyResponse(r).status = 401
    /\ ProxyResponse(r).body.error \in {"Invalid or expired access token", "Invalid user token"}

\* C18: a request whose token's audience does not contain the audience of
\* the tenant it names is never forwarded, and it is rejected by a check of
\* the proxy itself rather than by the failure of token verification.
C18_DispatcherChecksAudience ==
    \A p \in Procs :
        LET r == req[p]
        IN  (pc[p] = "done" /\ AudienceMismatched(r))
            => /\ r.upstreamCalls = <<>>
               /\ ~VerifierRejected(r)

\* C19: whatever status the tenant's API answers with, the proxy responds
\* with {status: "success", data, httpStatus: that status}; it responds
\* with "Proxy request failed" only when no answer came back.
C19_UpstreamStatusIsPassedOn ==
    \A p \in Procs :
        LET r == req[p]
        IN  /\ r.upReply # NullRec
               => /\ ProxyResponse(r).status = 200
                  /\ ProxyResponse(r).body =
                        [status |-> "success",
                         data |-> IF r.upReply.isJson THEN "json" ELSE "text",
                         httpStatus |-> r.upReply.status]
            /\ (ProxyResponse(r).status = 500 /\ ProxyResponse(r).body # HtmlPage)
               => r.upReply = NullRec

\* C20: a request whose method is GET in any letter case, or missing, is
\* forwarded without a body, a missing method as GET; any other method is
\* forwarded with the payload's JSON text, "{}" when there is no payload.
C20_BodyOnlyWhenNotGet ==
    \A p \in Procs :
        LET r == req[p]
        IN  \A i \in 1..Len(r.upstreamCalls) :
                LET call == r.upstreamCalls[i]
                IN  /\ r.method = Null => call.method = "GET"
                    /\ call.method \in {"GET", "get"} => call.body = Null
                    /\ call.method \notin {"GET", "get"} =>
                          call.body = (IF r.payload = Null THEN "{}" ELSE r.payload)

\* the positions of a message that hold a letter
NonBlank(message) == {i \in 1..Len(message) : message[i] # " "}

\* the message lower-cased, then cut to its first and last letter
NormalForm(message) ==
    LET lowered == [i \in 1..Len(message) |-> IF message[i] = "A" THEN "a" ELSE message[i]]
        first == CHOOSE i \in NonBlank(message) : \A j \in NonBlank(message) : i <= j
        last == CHOOSE i \in NonBlank(message) : \A j \in NonBlank(message) : j <= i
    IN  IF NonBlank(message) = {} THEN <<>> ELSE SubSeq(lowered, first, last)

\* slot p holds the cache key of its message
Keyed(p) == pc[p] = "keyed"

\* C21: for one tenant, two messages that are equal after trimming and
\* lower-casing have the same cache key, and the key of a message is the
\* key of its normalized form.
C21_KeyNormalization ==
    \A p \in Procs :
        Keyed(p) =>
          /\ req[p].cacheKey = CacheKey(req[p].botId, NormalForm(req[p].message))
          /\ \A q \in Procs :
               ( /\ Keyed(q)
                 /\ req[q].botId = req[p].botId
                 /\ NormalForm(req[q].message) = NormalForm(req[p].message) )
               => req[q].cacheKey = req[p].cacheKey

C21_Witness ==
    /\ Keyed("p1") /\ Keyed("p2")
    /\ req["p1"].message = <<" ", "A">>
    /\ req["p2"].message = <<"a", " ">>
    /\ req["p1"].cacheKey = req["p2"].cacheKey
    /\ req["p1"].cacheKey = req["p1"].botId \o <<":", "a">>

\* the cache writes the turns have completed
CompletedWrites ==
    {req[p].cacheWrites[i] : p \in {q \in Procs : req[q].cacheWrites # <<>>}, i \in {1}}

\* the turns of both slots returned fresh answers
BothFresh ==
    \A p \in Procs : ChatDone(p) /\ req[p].res.status = 200 /\ ~req[p].res.body.cached

\* C22: however the steps of overlapping turns interleave, the stored
\* tenants stay as they were, every key a turn has written holds the value
\* and expiry of one of the completed writes to that key, and no entry
\* exists that no write to its key put there.
C22_NoLostUpdate ==
    /\ bots = BotsStore
    /\ \A w \in CompletedWrites : w.key \in DOMAIN cache
    /\ \A k \in DOMAIN cache :
         \E w \in CompletedWrites :
            /\ w.key = k
            /\ cache[k] = [value |-> w.value, expiresAt |-> w.at + DEFAULT_TTL]
    /\ \A p \in Procs : Len(req[p].cacheWrites) <= 1

\* both turns missed the cache, overlapped, and wrote different answers
\* under one key
C22_Witness ==
    /\ BothFresh
    /\ req["p1"].cacheKey = req["p2"].cacheKey
    /\ req["p1"].res.body.response # req["p2"].res.body.response
    /\ cache[req["p1"].cacheKey].value \in
         {req["p1"].res.body.response, req["p2"].res.body.response}

\* both turns overlapped and wrote under different keys
C22_WitnessTwoKeys ==
    /\ BothFresh
    /\ req["p1"].cacheKey # req["p2"].cacheKey
    /\ req["p1"].cache0 = EmptyMap /\ req["p2"].cache0 = EmptyMap
    /\ DOMAIN cache = {req["p1"].cacheKey, req["p2"].cacheKey}

\* the response is the generic report of an internal fault
GenericFault(response) ==
    /\ response.status = 500
    /\ DOMAIN response.body = {"status", "error"}
    /\ response.body.status = "failed"
    /\ response.body.error \in {"Internal server error", "Proxy request failed"}

\* C23: a request in which the database lookup threw is answered with
\* status 500 and a generic message, in the chat handler and in the action
\* proxy, the authentication middleware included.
C23_InternalFaultIs500 ==
    \A p \in Procs :
        LET r == req[p]
        IN  /\ (r.fault = "chat" /\ ChatDone(p)) => GenericFault(r.res)
            /\ r.fault = "proxy" => GenericFault(ProxyResponse(r))

\* the status codes of the error envelope
ErrorStatuses == {400, 401, 403, 404, 500, 502}

\* the response is an error in the envelope {status: 'failed', error}
UniformError(response) ==
    /\ response.status \in ErrorStatuses
    /\ DOMAIN response.body = {"status", "error"}
    /\ response.body.status = "failed"

\* C24: every error response of the chat handler and of the action proxy
\* has the body {status: 'failed', error: message} and one of the statuses
\* 400, 401, 403, 404, 500, 502.
C24_UniformErrorEnvelope ==
    \A p \in Procs :
        LET r == req[p]
        IN  /\ (r.res.status >= 400) => UniformError(r.res)
            /\ (r.pres.status >= 400 /\ r.pres.body # HtmlPage) => UniformError(r.pres)

\* the token an action request is verified with: the middleware reads the
\* header, then the body; the earlier proxy reads the body
TokenToVerify(r) == IF r.kind = "legacy" THEN r.bodyToken ELSE TokenSent(r)

\* the causes for which a token is not valid for the tenant at time t
TokenMissing(tok) == tok = NoToken
TokenMalformed(tok) == tok # NoToken /\ tok.sig = "none"
SignatureMismatch(tok, bot) == tok # NoToken /\ tok.sig # bot.authDomain
IssuerMismatch(tok, bot) == tok # NoToken /\ tok.iss # IssuerOf(bot.authDomain)
AudienceMismatch(tok, bot) == tok # NoToken /\ bot.authAudience \notin tok.aud
TokenExpired(tok, t) == tok # NoToken /\ tok.exp <= t

InvalidToken(tok, bot, t) ==
    \/ TokenMissing(tok)
    \/ TokenMalformed(tok)
    \/ SignatureMismatch(tok, bot)
    \/ IssuerMismatch(tok, bot)
    \/ AudienceMismatch(tok, bot)
    \/ TokenExpired(tok, t)

C26_SearchFailurePropagates ==
    \A p \in Procs :
        LET r == req[p]
        IN  (r.kind = "chat" /\ r.search = "error")
            => /\ r.topChunks # "empty"
               /\ ChatDone(p) => /\ r.res.status >= 500
                                 /\ r.res.body.error # "No knowledge base found for this bot"

\* the steps a request is waiting in
Retrieving(p) == pc[p] \in {"retrieve", "oaLoad"}
Deciding(p) == pc[p] \in {"llm", "oaLLM"}
Authorizing(p) ==
    pc[p] \in {"proxyRoute", "authzFindBot", "authzVerify", "legacyFindBot", "legacyVerify"}
Dispatching(p) == pc[p] = "upstream"

\* C27: in a turn, retrieval starts only after the cache lookup; the model
\* is called only after retrieval returned chunks; token verification and
\* the role check for the action start only after the model's decision was
\* parsed; the request to the tenant's API is sent only after verification
\* and the role check succeeded; and while a step is pending no later step
\* has happened.
C27_StepsInOrder ==
    \A p \in Procs :
        LET r == req[p]
        IN  /\ (r.kind = "chat" /\ (Retrieving(p) \/ r.retrievals > 0))
                 => /\ r.cacheKey = CacheKey(r.botId, r.message)
                    /\ Retrieving(p) => (r.llmCalls = 0 /\ r.verifyCalls = 0)
            /\ (r.kind = "chat" /\ (Deciding(p) \/ r.llmCalls > 0))
                 => /\ r.retrievals = 1
                    /\ r.topChunks = "chunks"
                    /\ Deciding(p) => (r.proxyCalls = 0 /\ r.verifyCalls = 0)
            /\ (r.kind = "chat" /\ (Authorizing(p) \/ r.proxyCalls > 0 \/ r.verifyCalls > 0))
                 => /\ r.llmCalls = 1
                    /\ r.aiJson # NullRec
                    /\ r.aiJson.action = "call_api"
            /\ Authorizing(p) => r.upstreamCalls = <<>>
            /\ (Dispatching(p) \/ r.upstreamCalls # <<>>)
                 => /\ r.verifyCalls = 1
                    /\ r.verifiedFor = r.botId
                    /\ r.permittedFor = r.endpoint

C27_Witness ==
    \E p \in Procs :
        LET r == req[p]
        IN  /\ ChatDone(p)
            /\ r.variant = "gemini"
            /\ r.retrievals = 1 /\ r.llmCalls = 1 /\ r.verifyCalls = 1
            /\ Len(r.upstreamCalls) = 1
            /\ r.res.status = 200

\* C28: in every turn and every action request, retrieval has been invoked
\* at most once, the model at most once, the action proxy at most once,
\* token verification at most once, and at most one request has been sent
\* to the tenant's API.
C28_NothingIsRetried ==
    \A p \in Procs :
        LET r == req[p]
        IN  /\ r.retrievals <= 1
            /\ r.llmCalls <= 1
            /\ r.proxyCalls <= 1
            /\ r.verifyCalls <= 1
            /\ Len(r.upstreamCalls) <= 1

\* a turn whose request to the tenant's API failed in transport, after one
\* attempt of every step
C28_Witness ==
    \E p \in Procs :
        LET r == req[p]
        IN  /\ ChatDone(p)
            /\ r.retrievals = 1 /\ r.llmCalls = 1 /\ r.proxyCalls = 1 /\ r.verifyCalls = 1
            /\ Len(r.upstreamCalls) = 1
            /\ r.upReply = NullRec
            /\ r.pres.status = 500

\* the decision of the turn was parsed, asks for no action and has an answer
DecidedNone(r) ==
    /\ r.kind = "chat"
    /\ r.aiJson # NullRec
    /\ r.aiJson.action = "none"
    /\ r.aiJson.answer # Null

\* C29: a turn whose decision is action "none" ends 200 with the decision's
\* answer, unchanged, as the response, has stored exactly that answer under
\* its key with its single cache write, and has neither sent anything to
\* the action proxy nor verified a token, passed a role check or called
\* the tenant's API.
C29_NoneAnswersVerbatim ==
    \A p \in Procs :
        LET r == req[p]
            answer == IF r.aiJson.answer = "" THEN <<>> ELSE <<r.aiJson.answer>>
        IN  DecidedNone(r)
            => /\ ChatDone(p)
               /\ r.res = [status |-> 200,
                           body |-> [botId |-> r.botId, response |-> answer, cached |-> FALSE]]
               /\ Len(r.cacheWrites) = 1
               /\ r.cacheWrites[1].key = r.cacheKey
               /\ r.cacheWrites[1].value = answer
               /\ r.cacheKey \in DOMAIN cache
               /\ cache[r.cacheKey].value = answer
               /\ r.proxyCalls = 0
               /\ r.verifyCalls = 0
               /\ r.verifiedFor = NoBotId
               /\ r.permittedFor = Null
               /\ r.upstreamCalls = <<>>

C29_Witness ==
    \E p \in Procs :
        LET r == req[p]
        IN  /\ DecidedNone(r)
            /\ r.variant = "gemini"
            /\ r.aiJson.answer = "hi"
            /\ r.res.body.response = <<"hi">>
            /\ cache[r.cacheKey].value = <<"hi">>

\* the turn of slot p returned a fresh answer after its action was sent to
\* the action proxy and the proxy's response was read
ComposedTurn(p) ==
    /\ FreshTurn(p)
    /\ ActionTurn(req[p])
    /\ req[p].pres # NoResponse

\* C30: the answer of a turn with an action is the model's answer, then the
\* fixed delimiter, then the serialization of the proxy's response, which
\* depends on that response only; the model's answer is a prefix of it; and
\* the text returned is the text stored in the cache.
C30_ComposedAnswer ==
    \A p \in Procs :
        LET r == req[p]
            answer == IF r.aiJson.answer \in {Null, ""} THEN <<>> ELSE <<r.aiJson.answer>>
            text == r.res.body.response
        IN  ComposedTurn(p)
            => /\ StartsWith(text, answer)
               /\ Len(text) > Len(answer) + 1
               /\ text[Len(answer) + 1] = "\n\nAction executed result: "
               /\ SubSeq(text, Len(answer) + 2, Len(text)) = Stringify(r.pres.body)
               /\ Len(r.cacheWrites) = 1
               /\ r.cacheWrites[1] = [key |-> r.cacheKey, value |-> text, at |-> r.cacheWrites[1].at]
               /\ r.cacheKey \in DOMAIN cache
               /\ cache[r.cacheKey].value = text

C30_Witness ==
    \E p \in Procs :
        LET r == req[p]
        IN  /\ ComposedTurn(p)
            /\ r.aiJson.answer = "ok"
            /\ r.pres.status = 200
            /\ r.upReply # NullRec
            /\ r.upReply.status = 200
            /\ cache[r.cacheKey].value = r.res.body.response

\* the role check of the request was reached with a policy that is a list,
\* or with none
DecidedByPolicy(r) ==
    /\ RoleChecked(r)
    /\ HasPolicyList(r.reqBot) \/ r.reqBot.endpointRoles = NullRec

\* C32: the outcome of the role check is determined by the stored policy
\* list, the requested endpoint and the caller's roles alone: the request
\* is let through iff no entry has exactly the requested endpoint or the
\* first such entry shares a role with the caller, whatever the HTTP method
\* and whatever later entries for the same endpoint say; otherwise it is
\* answered 403.
C32_DecisionIsPure ==
    \A p \in Procs :
        LET r == req[p]
            permits == PolicyPermits(r.reqBot, r.endpoint, CallerRoles(TokenSent(r), r.reqBot))
        IN  DecidedByPolicy(r)
            => /\ (r.permittedFor = r.endpoint) <=> permits
               /\ (Len(r.upstreamCalls) = 1) <=> permits
               /\ ~permits => (pc[p] = "done" /\ r.res.status = 403)
               /\ r.permittedFor \in {Null, r.endpoint}

\* a POST let through by the first of two entries for its endpoint, the
\* second of which would deny it
C32_Witness ==
    \E p \in Procs :
        LET r == req[p]
        IN  /\ DecidedByPolicy(r)
            /\ r.kind = "proxy"
            /\ r.method = "POST"
            /\ r.endpoint = "/refund"
            /\ HasPolicyList(r.reqBot)
            /\ r.reqBot.endpointRoles.rules =
                 <<[endpoint |-> "/refund", roles |-> <<"viewer">>],
                   [endpoint |-> "/refund", roles |-> <<>>]>>
            /\ CallerRoles(TokenSent(r), r.reqBot) = {"viewer"}
            /\ Len(r.upstreamCalls) = 1

\* the last call of slot p to cache.js
LastOp(p) == req[p].op

\* the entries under other keys than key are as they were before the call
OthersAsBefore(p, key) ==
    /\ DOMAIN cache \ {key} = DOMAIN req[p].cache0 \ {key}
    /\ \A k \in DOMAIN cache \ {key} : cache[k] = req[p].cache0[k]

\* C33: after setCache(key, value, ttl) the entry under key is the value
\* with expiresAt = time of the call + ttl, ttl being 10 minutes when not
\* passed, whatever was stored under key before, and the other entries are
\* untouched; after clearCache(key) only the entry under key is gone;
\* after flushCache() the cache is empty.
C33_CacheOperations ==
    \A p \in Procs :
        req[p].kind = "cacheOp" =>
          LET op == LastOp(p)
          IN  /\ op.name = "setCache" =>
                   /\ op.key \in DOMAIN cache
                   /\ cache[op.key].value = op.value
                   /\ cache[op.key].expiresAt =
                        op.at + (IF op.ttl = Undefined THEN 10 * 60 * 1000 ELSE op.ttl)
                   /\ OthersAsBefore(p, op.key)
              /\ op.name = "clearCache" =>
                   /\ op.key \notin DOMAIN cache
                   /\ OthersAsBefore(p, op.key)
              /\ op.name = "flushCache" => DOMAIN cache = {}

\* a second setCache on a key replaced its value and restarted its expiry,
\* next to an entry under another key
C33_Witness ==
    \E p \in Procs :
        LET op == LastOp(p)
        IN  /\ req[p].kind = "cacheOp"
            /\ op.name = "setCache"
            /\ op.ttl = ShortTtl
            /\ op.key \in DOMAIN req[p].cache0
            /\ req[p].cache0[op.key].value # op.value
            /\ req[p].cache0[op.key].expiresAt < cache[op.key].expiresAt
            /\ DOMAIN cache = CacheOpKeys

\* slot p has called verifyAccessToken
Verified(p) == pc[p] = "verified"

\* the issuers differ at most by one trailing slash
SameUpToSlash(a, b) == a = b \/ a \o <<"/">> = b \/ b \o <<"/">> = a

\* C34: the issuer verifyAccessToken uses is the issuer it was given, with
\* a "/" appended iff it did not end with one; the key set is fetched from
\* that issuer followed by .well-known/jwks.json and a token is accepted
\* only if its iss claim is that issuer and its key is published there; an
\* issuer given with and without the trailing slash yields the same
\* issuer, URL and outcome.
C34_IssuerNormalization ==
    \A p \in Procs :
        Verified(p) =>
          LET op == req[p].op
              n == Len(op.issuer)
              token == req[p].hdrToken
          IN  /\ op.iss[Len(op.iss)] = "/"
              /\ SubSeq(op.iss, 1, n) = op.issuer
              /\ Len(op.iss) = IF op.issuer[n] = "/" THEN n ELSE n + 1
              /\ op.url = op.iss \o <<".well-known/jwks.json">>
              /\ op.ok => /\ token.iss = op.iss
                          /\ <<"https://", token.sig, "/", ".well-known/jwks.json">> = op.url
              /\ \A q \in Procs :
                   (Verified(q) /\ SameUpToSlash(req[q].op.issuer, op.issuer))
                   => /\ req[q].op.iss = op.iss
                      /\ req[q].op.url = op.url
                      /\ req[q].op.ok = op.ok

\* a valid token accepted for the issuer given with and without the slash
C34_Witness ==
    /\ Verified("p1") /\ Verified("p2")
    /\ req["p1"].op.issuer # req["p2"].op.issuer
    /\ req["p1"].op.iss = req["p2"].op.iss
    /\ req["p1"].op.ok /\ req["p2"].op.ok

\* the answer carries the result of a request to the tenant's API
CarriesActionResult(text) == Mentions(text, Delim) /\ Mentions(text, ",data:")

\* C35: a turn whose answer, fresh or from the cache, carries the result of
\* an action on the tenant's API presented a token that was verified for the
\* tenant in that same turn, and the role check of that turn permitted the
\* endpoint.
C35_ActionResultOnlyForAuthorized ==
    \A p \in Procs :
        LET r == req[p]
        IN  (ChatDone(p) /\ r.res.status = 200 /\ CarriesActionResult(r.res.body.response))
            => /\ r.verifiedFor = r.botId
               /\ r.permittedFor # Null
               /\ ValidFor(r.bodyToken, bots[r.botId])

\* the role check of the request was reached, and the tenant's stored
\* endpointRoles is text that does not parse to a list
UnparseablePolicy(r) ==
    /\ RoleChecked(r)
    /\ r.reqBot.endpointRoles # NullRec
    /\ r.reqBot.endpointRoles.json # "list"

\* C38: when the tenant's stored endpointRoles cannot be parsed to a list,
\* the role-check middleware lets every verified request through to the
\* tenant's API, whatever the endpoint and the caller's roles, while the
\* earlier proxy answers 500 and sends nothing to the tenant's API.
C38_UnparseablePolicy ==
    \A p \in Procs :
        LET r == req[p]
        IN  UnparseablePolicy(r)
            => /\ r.kind = "proxy" => /\ r.permittedFor = r.endpoint
                                      /\ Len(r.upstreamCalls) = 1
                                      /\ r.res.status # 403
               /\ r.kind = "legacy" => /\ pc[p] = "done"
                                       /\ r.res = [status |-> 500,
                                                   body |-> Failed("Proxy request failed")]
                                       /\ r.permittedFor = Null
                                       /\ r.upstreamCalls = <<>>

\* the earlier proxy has answered 500 to a caller with role admin
C38_Witness ==
    \E p \in Procs :
        LET r == req[p]
        IN  /\ UnparseablePolicy(r)
            /\ r.kind = "legacy"
            /\ r.endpoint = "/refund"
            /\ "admin" \in CallerRoles(TokenSent(r), r.reqBot)
            /\ r.res.status = 500

\* a management request of the given kind has been answered, and names a
\* stored tenant
Answered(p, kind) ==
    /\ req[p].kind = kind
    /\ pc[p] = "done"
    /\ req[p].botId \in DOMAIN bots

\* the fields of a tenant record an update request can supply
ConfigFields ==
    {"botName", "apiBaseUrl", "endpointRoles", "authDomain", "authAudience",
     "rolesNamespace"}

\* the update request supplied a value for the field
Supplied(body, f) ==
    IF f = "endpointRoles" THEN body[f] # NullRec ELSE body[f] # Null

\* C37: after a bot update that was answered with success, every
\* configuration field the request did not supply has the value it had in
\* the record found at the start of the request; in particular the stored
\* endpointRoles is as before when the request carries none.
C37_UpdateKeepsUnsupplied ==
    \A p \in Procs :
        (Answered(p, "update") /\ req[p].res.status = 200)
            => \A f \in ConfigFields :
                   ~Supplied(req[p].body, f) => bots[req[p].botId][f] = req[p].bot[f]

\* an answered create, update or upload request that carried a file and
\* whose tenant record exists
Ingested(p) ==
    /\ \E kind \in {"create", "update", "upload"} : Answered(p, kind)
    /\ req[p].file # Null
    /\ req[p].bot # NullRec

\* C39: after a create, update-with-file or upload request has been
\* answered, with any response, the tenant's embeddingStatus is "complete"
\* or "failed", and the answer is a success only if it is "complete".
C39_StatusSettled ==
    \A p \in Procs :
        Ingested(p)
            => /\ bots[req[p].botId].embeddingStatus \in {"complete", "failed"}
               /\ req[p].res.status = 200
                      => bots[req[p].botId].embeddingStatus = "complete"

\* a step of a chat turn or of an action request
TurnStep(p) ==
    /\ <<pc[p], req[p]>> # <<pc'[p], req'[p]>>
    /\ req'[p].kind \in {"chat", "proxy", "legacy"}

\* a step of a create, update or upload request
ManagementStep(p) ==
    /\ <<pc[p], req[p]>> # <<pc'[p], req'[p]>>
    /\ req'[p].kind \in {"create", "update", "upload"}

\* C31: no step of a chat turn or of an action request changes the bots
\* collection; a step that changes it belongs to a create, update or upload
\* request, and every record that was stored before the step is stored
\* after it.
C31_OnlyManagementMutates ==
    [][/\ \A p \in Procs : TurnStep(p) => bots' = bots
       /\ bots' # bots => /\ \E p \in Procs : ManagementStep(p)
                          /\ DOMAIN bots \subseteq DOMAIN bots']_vars

\* a chat turn has been answered after an earlier request changed a tenant
\* record, and the other tenant's record is as it was
C31_Witness ==
    /\ \E p \in Procs : req[p].kind = "chat" /\ pc[p] = "done"
    /\ bots[B1] # Bot1
    /\ bots[B2] = Bot2

\* the turn in slot p was answered from the cache
CacheHit(p) ==
    /\ req[p].kind = "chat"
    /\ pc[p] = "done"
    /\ req[p].res.status = 200
    /\ req[p].res.body.cached

\* the turn in slot q wrote the entry the turn in slot p looked up
WroteKeyOf(q, p) ==
    /\ req[q].cacheWrites # <<>>
    /\ req[q].cacheWrites[1].key = req[p].cacheKey

\* C36: a cache hit of a turn for a stored tenant returns an answer that a
\* turn for the same tenant wrote, never one written for another tenant;
\* and every cache entry was written by a turn whose tenant had been found
\* in the tenant store and is the tenant of the entry's key.
C36_TenantIsolation ==
    /\ \A p \in Procs :
           (CacheHit(p) /\ req[p].botId \in DOMAIN bots)
               => /\ \E q \in Procs \ {p} :
                         /\ WroteKeyOf(q, p)
                         /\ req[q].cacheWrites[1].value = req[p].res.body.response
                  /\ \A q \in Procs : WroteKeyOf(q, p) => req[q].botId = req[p].botId
    /\ \A key \in DOMAIN cache :
           \E q \in Procs :
               /\ req[q].cacheWrites # <<>>
               /\ req[q].cacheWrites[1].key = key
               /\ key = CacheKey(req[q].botId, req[q].message)
               /\ req[q].bot # NullRec
               /\ req[q].bot = bots[req[q].botId]

\* tenant 2 asks what tenant 1 was answered before and is not served from
\* the cache, while tenant 1's entry is still stored
C36_Witness ==
    \E p, q \in Procs :
        /\ req[q].botId = B1 /\ req[q].cacheWrites # <<>>
        /\ req[p].botId = B2 /\ req[p].cacheWrites # <<>>
        /\ Fold(req[p].message) = Fold(req[q].message)
        /\ req[q].cacheWrites[1].value # req[p].cacheWrites[1].value
        /\ cache[req[q].cacheKey].value = req[q].cacheWrites[1].value

\* a second turn for the same tenant is answered from the cache
C36_WitnessHit ==
    \E p \in Procs : CacheHit(p) /\ req[p].botId = B2

\* the request in slot p has arrived and has not been answered
InFlight(p) == pc[p] \notin {"idle", "done"}

\* the statuses with which authz, requiresRoleForEndpoint and the proxy
\* handler refuse a request before anything is sent to the tenant's API
RefusedStatuses == {400, 401, 403, 404}

\* responses sent so far: none while the request is in flight, one when it
\* is done; the action request made inside a turn is answered at most once;
\* an error response comes with no cache write, a refusal with no dispatch
OneResponse(p) ==
    LET r == req[p]
    IN  /\ InFlight(p) => r.sent = 0 /\ r.res = NoResponse
        /\ pc[p] = "done" => r.sent = 1 /\ r.res # NoResponse
        /\ r.psent <= 1
        /\ pc[p] = "proxyReply" => r.psent = 1 /\ r.pres # NoResponse
        /\ (pc[p] = "done" /\ r.res.status >= 400) => r.cacheWrites = <<>>
        /\ (pc[p] = "done" /\ r.kind = "proxy" /\ r.res.status \in RefusedStatuses)
               => r.upstreamCalls = <<>>
        /\ (r.kind = "chat" /\ r.pres.status \in RefusedStatuses)
               => r.upstreamCalls = <<>>

\* C40: every chat turn and every action request that has arrived is
\* answered in the end; while it is in flight no response has been sent,
\* when it is done exactly one has; an error response is followed by no
\* cache write and a refusal by no dispatch.
C40_ExactlyOneResponse ==
    /\ [](\A p \in Procs : OneResponse(p))
    /\ \A p \in Procs : InFlight(p) ~> (pc[p] = "done" /\ req[p].sent = 1)

\* a turn whose action request was refused with 403 has been answered
C40_Witness ==
    \E p \in Procs :
        /\ req[p].kind = "chat"
        /\ pc[p] = "done"
        /\ req[p].psent = 1
        /\ req[p].pres.status = 403
        /\ req[p].sent = 1

====
